---- MODULE Spec2Model ----
(***************************************************************************)
(* Model of the Visit Routing & Scheduling Engine (planner_engine.py,      *)
(* utils.py, config.py).                                                   *)
(*                                                                         *)
(* Conventions                                                             *)
(*  - A calendar day is the number of days since 2025-01-01 (a Wednesday). *)
(*  - A datetime is a record [day, tod]; tod = 0 is midnight, tod > 0 is a *)
(*    later time of the same day.  timedelta(days=1) keeps tod.            *)
(*  - Hours are counted in units of 1/average_speed_kmh hour, so that the  *)
(*    float quotient km / speed of calculate_travel_time is exact.         *)
(*  - A table cell that may hold a non-string (None, NaN, a number) is a   *)
(*    record [isStr, s]; a string is a sequence of one-character strings.  *)
(***************************************************************************)
EXTENDS Integers, Sequences, FiniteSets, TLC

VARIABLES
    \* ---- schedule_daily ----
    clients_df,        \* rows of the tour read so far: [Ore_lavoro, km_from_previous]
    inspector,         \* inspector name passed to schedule_daily
    start_date,        \* start datetime
    vacations_df,      \* [present, rows]: vacation table (or None)
    current_date,      \* local current_date of schedule_daily
    daily_hours,       \* local daily_hours accumulator
    scheduled_visits,  \* local scheduled_visits list (the result rows)
    fallback,          \* TRUE once a next_available_date search fell back
    pcS,               \* position of schedule_daily: "idle", "start", "loop", "done"
    \* ---- assign_inspectors / update_inspector_assignment ----
    planning_df,       \* the caller's table: sequence of rows [index, Regione, Ispettore]
    last_update,       \* arguments and result of the last update_inspector_assignment
    edits,             \* number of update_inspector_assignment calls made
    pcP,               \* "idle", "assign" (before assign_inspectors), "edit"
    \* ---- match_orders ----
    anagrafica_df,     \* customer master table (sequence of rows)
    ordini_df,         \* order table (sequence of rows)
    matched,           \* returned matched table
    unmatched,         \* returned unmatched table
    pcM,               \* "idle", "call", "done"
    \* ---- tsp_nearest_neighbor ----
    tsp_clients,       \* the clients_df argument: rows [id, lat, lon]
    base_coords,       \* the base_coords argument
    unvisited,         \* local unvisited table
    tour,              \* local tour list: rows with km_from_previous
    current_coords,    \* local current_coords
    total_km,          \* local total_km
    tour_df,           \* the returned table
    pcT,               \* "idle", "start", "loop", "done"
    \* ---- generate_renewals_list ----
    ren_anagrafica_df, \* the anagrafica_df argument: rows [ID_Cliente, Data_riferimento]
    alert_days,        \* the alert_days argument (None replaced by the default)
    today,             \* datetime.now() at the call
    renewals,          \* the returned table: rows [ID_Cliente, Giorni_a_Scadenza]
    pcR,               \* "idle", "call", "done"
    \* ---- geocode_addresses ----
    geo_df,            \* the df argument: rows [index, Regione, lat, lon]
    geo_callback,      \* the progress_callback argument: "none" or its signature
    geo_answers,       \* the geolocator's answers to the lookups made so far
    geo_error,         \* the exception that left geocode_addresses, "" when none
    pcGeo,             \* "idle", "start", "loop", "done", "raised"
    \* ---- cluster_geographic ----
    cl_df,             \* the df argument: rows [id, lat, lon], then with cluster_id
    cl_n_clusters,     \* the n_clusters argument: [given, n], given = FALSE for None
    cl_kmeans,         \* TRUE once KMeans was run
    cl_error,          \* the exception that left cluster_geographic, "" when none
    pcC,               \* "idle", "call", "done", "raised"
    \* ---- next_available_date ----
    nad_start_date,    \* the start_date argument
    nad_inspector,     \* the inspector argument ("" for None)
    nad_vacations_df,  \* the vacations_df argument
    nad_custom,        \* the custom_holidays argument, as a set of days
    nad_result,        \* the date returned
    nad_examined,      \* how many candidate dates the loop examined
    pcN,               \* "idle", "call", "done"
    \* ---- generate_planning (its match_orders call works on the match_orders
    \*      variables above) ----
    gp_inputs,         \* the two tables as the caller built them
    gp_callback,       \* the progress_callback argument: "none" or its signature
    gp_geo,            \* the geolocator's answer for the address of each customer
    gp_matched,        \* local matched, as the stages rework it
    gp_todo,           \* generate_tours: the groups still to be toured
    gp_all_tours,      \* generate_tours: local all_tours, row after row
    gp_clock,          \* what datetime.now() returns during the invocation
    gp_results,        \* local results
    gp_events,         \* the callback invocations and completed stages, in order
    gp_error,          \* the exception that left generate_planning, "" when none
    gp_run,            \* 1 in the first invocation, 2 in the second
    gp_previous,       \* what the first invocation ended with
    pcG                \* "idle", the stage about to run, "done", "raised"

schedVars == <<clients_df, inspector, start_date, vacations_df, current_date,
               daily_hours, scheduled_visits, fallback, pcS>>

planVars == <<planning_df, last_update, edits, pcP>>

matchVars == <<anagrafica_df, ordini_df, matched, unmatched, pcM>>

tspVars == <<tsp_clients, base_coords, unvisited, tour, current_coords, total_km,
             tour_df, pcT>>

renewVars == <<ren_anagrafica_df, alert_days, today, renewals, pcR>>

geoVars == <<geo_df, geo_callback, geo_answers, geo_error, pcGeo>>

gpVars == <<gp_inputs, gp_callback, gp_geo, gp_matched, gp_todo, gp_all_tours, gp_clock,
            gp_results, gp_events, gp_error, gp_run, gp_previous, pcG>>

nadVars == <<nad_start_date, nad_inspector, nad_vacations_df, nad_custom, nad_result,
             nad_examined, pcN>>

clusterVars == <<cl_df, cl_n_clusters, cl_kmeans, cl_error, pcC>>

vars == <<schedVars, planVars, matchVars, tspVars, renewVars, geoVars, gpVars, nadVars,
          clusterVars>>

\* what the steps of one entry point leave alone
notSched == <<planVars, matchVars, tspVars, renewVars, geoVars, gpVars, nadVars,
    clusterVars>>

notPlan == <<schedVars, matchVars, tspVars, renewVars, geoVars, gpVars, nadVars,
    clusterVars>>

notMatch == <<schedVars, planVars, tspVars, renewVars, geoVars, gpVars, nadVars,
    clusterVars>>

notTsp == <<schedVars, planVars, matchVars, renewVars, geoVars, gpVars, nadVars,
    clusterVars>>

notRenew == <<schedVars, planVars, matchVars, tspVars, geoVars, gpVars, nadVars,
    clusterVars>>

notGeo == <<schedVars, planVars, matchVars, tspVars, renewVars, gpVars, nadVars,
    clusterVars>>

\* generate_planning works on the match_orders variables too
notPlanning == <<schedVars, planVars, tspVars, renewVars, geoVars, nadVars,
    clusterVars>>

notNextAvailable == <<schedVars, planVars, matchVars, tspVars, renewVars, geoVars, gpVars,
    clusterVars>>

notCluster == <<schedVars, planVars, matchVars, tspVars, renewVars, geoVars, gpVars, nadVars>>

-----------------------------------------------------------------------------
(* Bounds                                                                  *)

MaxTour == 3

MaxVisits == 2

MaxEdits == 2

MaxCustomers == 2

MaxOrders == 2

MaxStrLen == 4

MaxStops == 3

MaxRecords == 2

MaxCandidates == 2

RECURSIVE SeqsUpTo(_, _)
SeqsUpTo(S, n) ==
    IF n = 0 THEN {<<>>}
    ELSE LET shorter == SeqsUpTo(S, n - 1)
         IN  shorter \cup {Append(s, x) : s \in {t \in shorter : Len(t) = n - 1}, x \in S}

\* a table row (pandas Series) with the cells of upd set or added
WithFields(row, upd) ==
    [f \in (DOMAIN row) \cup (DOMAIN upd) |-> IF f \in DOMAIN upd THEN upd[f] ELSE row[f]]

-----------------------------------------------------------------------------
(* config.py                                                               *)

PAOLO_REGIONS == {"Lombardia", "Piemonte", "Liguria", "Valle d'Aosta"}

NATIONAL_INSPECTORS == {"Adrian", "Salvatore", "Mattia"}

ALL_INSPECTORS == {"Adrian", "Salvatore", "Mattia", "Paolo"}

average_speed_kmh == 70

UnitsPerHour == average_speed_kmh

max_hours_per_day == 8 * UnitsPerHour

max_hours_friday == (13 * UnitsPerHour) \div 2

buffer_hours_per_visit == UnitsPerHour \div 2

\* ITALIAN_HOLIDAYS as day numbers: 2025-01-01, 01-06, 04-21, 04-25, 05-01,
\* 06-02, 08-15, 11-01, 12-08, 12-25, 12-26 and 2026-01-01, 01-06, 04-06,
\* 04-25, 05-01, 06-02, 08-15, 11-01, 12-08, 12-25, 12-26.
ITALIAN_HOLIDAYS ==
    {0, 5, 110, 114, 120, 152, 226, 304, 341, 358, 359,
     365, 370, 460, 479, 485, 517, 591, 669, 706, 723, 724}

NoMessage == [text |-> "", region |-> ""]

\* validate_inspector_assignment without the test of lines 317-318
validate_inspector_assignment_NoPaoloCheck(insp, region) ==
    IF insp # "Paolo" /\ region \in PAOLO_REGIONS
    THEN [is_valid |-> TRUE,
          message  |-> [text |-> "Attenzione: zona di competenza di Paolo", region |-> region]]
    ELSE [is_valid |-> TRUE, message |-> NoMessage]

\* config.py lines 317-323; the message is its fixed text and the region it names
validate_inspector_assignment(insp, region) ==
    IF insp = "Paolo" /\ region \notin PAOLO_REGIONS
    THEN [is_valid |-> FALSE,
          message  |-> [text |-> "Paolo puo lavorare solo in: Lombardia, Piemonte, Liguria, Valle d'Aosta",
                        region |-> ""]]
    ELSE IF insp # "Paolo" /\ region \in PAOLO_REGIONS
    THEN [is_valid |-> TRUE,
          message  |-> [text |-> "Attenzione: zona di competenza di Paolo", region |-> region]]
    ELSE [is_valid |-> TRUE, message |-> NoMessage]

\* get_available_inspectors returning the whole roster outside Paolo's regions
get_available_inspectors_WholeRoster(region) ==
    IF region \in PAOLO_REGIONS THEN {"Paolo"} ELSE ALL_INSPECTORS

\* get_available_inspectors that offers every inspector in every region
get_available_inspectors_Everyone(region) == ALL_INSPECTORS

\* config.py lines 342-345
get_available_inspectors(region) ==
    IF region \in PAOLO_REGIONS THEN {"Paolo"} ELSE NATIONAL_INSPECTORS

-----------------------------------------------------------------------------
(* utils.py: date utilities                                                *)

Datetime(d, t) == [day |-> d, tod |-> t]

\* pd.to_datetime of a calendar date: midnight of that day
ToDatetime(d) == Datetime(d, 0)

\* date + timedelta(days=n)
PlusDays(date, n) == [date EXCEPT !.day = @ + n]

\* datetime comparison a <= b
DtLeq(a, b) == a.day < b.day \/ (a.day = b.day /\ a.tod <= b.tod)

\* date.weekday(): Monday = 0 ... Sunday = 6 (2025-01-01 is a Wednesday)
Weekday(date) == (date.day + 2) % 7

\* is_weekend that sees Sunday only
is_weekend_SundayOnly(date) == Weekday(date) >= 6

is_weekend(date) == Weekday(date) >= 5

\* strftime("%Y-%m-%d") equality is equality of the calendar day
\* custom_holidays is the set of the days of the custom dates (None: no day)
is_holiday(date, custom_holidays) ==
    date.day \in ITALIAN_HOLIDAYS \/ date.day \in custom_holidays

InVacation(date, insp, vac) ==
    /\ insp # ""
    /\ vac.present
    /\ \E i \in 1..Len(vac.rows) :
          /\ vac.rows[i].Ispettore = insp
          /\ DtLeq(ToDatetime(vac.rows[i].Data_Inizio), date)
          /\ DtLeq(date, ToDatetime(vac.rows[i].Data_Fine))

is_available(date, insp, vac, custom_holidays) ==
    IF is_weekend(date) THEN FALSE
    ELSE IF is_holiday(date, custom_holidays) THEN FALSE
    ELSE IF InVacation(date, insp, vac) THEN FALSE
    ELSE TRUE

max_days == 365

\* The loop of lines 278-286 over the offsets lo..hi (in increasing order):
\* the first offset whose date is available, or -1 when the loop runs out.
\* The range is scanned in halves to keep the evaluation depth logarithmic.
RECURSIVE FirstAvailableOffset(_, _, _, _, _, _)
FirstAvailableOffset(start, lo, hi, insp, vac, custom_holidays) ==
    IF lo > hi THEN -1
    ELSE IF lo = hi
         THEN (IF is_available(PlusDays(start, lo), insp, vac, custom_holidays)
               THEN lo ELSE -1)
         ELSE LET mid  == (lo + hi) \div 2
                  left == FirstAvailableOffset(start, lo, mid, insp, vac, custom_holidays)
              IN  IF left # -1 THEN left
                  ELSE FirstAvailableOffset(start, mid + 1, hi, insp, vac,
                                            custom_holidays)

\* a search that goes on for another max_days dates when the first max_days
\* hold no available one
NextAvailableSearch_KeepLooking(start, insp, vac, custom_holidays) ==
    LET k == FirstAvailableOffset(start, 0, 2 * max_days - 1, insp, vac, custom_holidays)
    IN  [date      |-> IF k # -1 THEN PlusDays(start, k) ELSE start,
         fell_back |-> (k = -1),
         examined  |-> IF k # -1 THEN k + 1 ELSE 2 * max_days]

\* lines 276-289: the date returned, whether it is the fallback of line 289,
\* and the number of dates the loop of line 278 passed to is_available
NextAvailableSearch(start, insp, vac, custom_holidays) ==
    LET k == FirstAvailableOffset(start, 0, max_days - 1, insp, vac, custom_holidays)
    IN  [date      |-> IF k # -1 THEN PlusDays(start, k) ELSE start,
         fell_back |-> (k = -1),
         examined  |-> IF k # -1 THEN k + 1 ELSE max_days]

next_available_date(start, insp, vac, custom_holidays) ==
    NextAvailableSearch(start, insp, vac, custom_holidays).date

\* custom_holidays=None, as schedule_daily leaves it
NoCustomHolidays == {}

calculate_travel_time(distance_km) ==
    IF average_speed_kmh <= 0 THEN 0
    ELSE (distance_km * UnitsPerHour) \div average_speed_kmh

\* date.isocalendar()[1] for the dates of 2025-2027: ISO week 1 begins on
\* Monday 2024-12-30 (day -2), 2025-12-29 (day 362) and 2027-01-04 (day 733)
get_week_number(date) ==
    IF date.day < 362 THEN ((date.day + 2) \div 7) + 1
    ELSE IF date.day < 733 THEN ((date.day - 362) \div 7) + 1
    ELSE ((date.day - 733) \div 7) + 1

Giorni == <<"Lunedi", "Martedi", "Mercoledi", "Giovedi", "Venerdi", "Sabato", "Domenica">>

get_day_name_italian(date) == Giorni[Weekday(date) + 1]

-----------------------------------------------------------------------------
(* utils.py: normalize_string                                              *)

\* a str cell, and a cell that holds no str (None, NaN, a number)
Str(s) == [isStr |-> TRUE, s |-> s]

NotStr == [isStr |-> FALSE, s |-> <<>>]

\* whitespace as str.strip() and the regular expression \s see it
IsSpace(c) == c \in {" ", "\t"}

UpperChar(c) == CASE c = "a" -> "A" [] c = "b" -> "B" [] OTHER -> c

\* line 53: text.upper()
Upper(s) == [i \in 1..Len(s) |-> UpperChar(s[i])]

RECURSIVE LStrip(_)
LStrip(s) == IF s # <<>> /\ IsSpace(Head(s)) THEN LStrip(Tail(s)) ELSE s

RECURSIVE RStrip(_)
RStrip(s) ==
    IF s # <<>> /\ IsSpace(s[Len(s)]) THEN RStrip(SubSeq(s, 1, Len(s) - 1)) ELSE s

\* text.lstrip() in place of text.strip()
Strip_LeftOnly(s) == LStrip(s)

\* line 56: text.strip()
Strip(s) == RStrip(LStrip(s))

\* line 59: re.sub(r"\s+", " ", text): every maximal whitespace run becomes " "
RECURSIVE Collapse(_)
Collapse(s) ==
    IF s = <<>> THEN <<>>
    ELSE IF IsSpace(Head(s)) THEN <<" ">> \o Collapse(LStrip(s))
    ELSE <<Head(s)>> \o Collapse(Tail(s))

\* lines 49-61
normalize_string(text) ==
    IF ~text.isStr THEN <<>> ELSE Collapse(Strip(Upper(text.s)))

-----------------------------------------------------------------------------
(* planner_engine.py: schedule_daily                                       *)

\* task hours of 2 h and 7 h; with the buffer and 0 or 1 h of travel the
\* required hours are 2.5 h, 3.5 h, 7.5 h and 8.5 h
OreValues == {2 * UnitsPerHour, 7 * UnitsPerHour}

KmValues == {0, 70}

Clients == [Ore_lavoro : OreValues, km_from_previous : KmValues]

\* 2025-12-04 Thu, 12-05 Fri, 12-06 Sat, 12-08 Mon (holiday), 12-10 Wed, 12-24 Wed
StartDays == {337, 338, 339, 341, 343, 357}

\* midnight of each start day, and a later time of day on 12-05 and 12-10
StartDates == {Datetime(d, 0) : d \in StartDays} \cup {Datetime(338, 1), Datetime(343, 1)}

VacRow(i, a, b) == [Ispettore |-> i, Data_Inizio |-> a, Data_Fine |-> b]

\* None; Adrian 12-09..12-10; Paolo 12-09..12-10 and Adrian 12-05..12-05;
\* Adrian 2025-12-01..2027-01-31 (longer than the lookahead)
VacationTables ==
    { [present |-> FALSE, rows |-> <<>>],
      [present |-> TRUE,  rows |-> <<VacRow("Adrian", 342, 343)>>],
      [present |-> TRUE,  rows |-> <<VacRow("Paolo", 342, 343), VacRow("Adrian", 338, 338)>>],
      [present |-> TRUE,  rows |-> <<VacRow("Adrian", 334, 760)>>] }

SchedInspectors == {"Adrian", "Paolo"}

total_hours(client) ==
    (client.Ore_lavoro + buffer_hours_per_visit)
        + calculate_travel_time(client.km_from_previous)

\* schedule_daily is called with an inspector, a start date and a vacation
\* table; the rows of the tour are read one at a time by the loop.
SchedCall ==
    /\ clients_df = <<>>
    /\ inspector \in SchedInspectors
    /\ start_date \in StartDates
    /\ vacations_df \in VacationTables
    /\ current_date = start_date
    /\ daily_hours = 0
    /\ scheduled_visits = <<>>
    /\ fallback = FALSE
    /\ pcS = "start"

\* lines 362-369: current_date = next_available_date(start_date, ...)
ScheduleStart ==
    /\ pcS = "start"
    /\ LET r == NextAvailableSearch(start_date, inspector, vacations_df, NoCustomHolidays)
       IN  /\ current_date' = r.date
           /\ fallback' = r.fell_back
    /\ daily_hours' = 0
    /\ scheduled_visits' = <<>>
    /\ pcS' = "loop"
    /\ UNCHANGED <<clients_df, inspector, start_date, vacations_df>>
    /\ UNCHANGED notSched

\* lines 378-383
max_daily_hours(date) ==
    IF Weekday(date) = 4 THEN max_hours_friday ELSE max_hours_per_day

\* line 386: the visit does not fit in the current day
MustAdvance(hours, total, date) == hours + total > max_daily_hours(date)

\* the search for the next day started from the current date itself
AdvanceFrom_SameDay(date) == date

\* line 389: current_date + timedelta(days=1)
AdvanceFrom(date) == PlusDays(date, 1)

\* an accumulator that is carried over to the new date
CarriedHours_NeverReset(adv, hours0) == hours0

\* lines 386-391: daily_hours = 0.0 in the branch that advances the date
CarriedHours(adv, hours0) == IF adv THEN 0 ELSE hours0

\* lines 372-403: the body of the loop on the row `client`, from the current
\* date and the hours of the day so far: the new date and hours, and the row
\* appended to scheduled_visits
ScheduleStep(date0, hours0, client, insp, vac) ==
    LET total == total_hours(client)
        adv   == MustAdvance(hours0, total, date0)
        r     == NextAvailableSearch(AdvanceFrom(date0), insp, vac, NoCustomHolidays)
        date  == IF adv THEN r.date ELSE date0
        hours == CarriedHours(adv, hours0)
    IN  [current_date |-> date,
         fell_back    |-> (adv /\ r.fell_back),
         daily_hours  |-> hours + total,
         visit        |-> WithFields(client,
                              [Data |-> date,
                               Settimana |-> get_week_number(date),
                               Giorno |-> get_day_name_italian(date),
                               Ore_Totali_Giorno |-> hours + total])]

\* lines 371-403: one iteration of the loop, on the next row `client` of the tour
ScheduleVisit ==
    /\ pcS = "loop"
    /\ Len(clients_df) < MaxTour
    /\ \E client \in Clients :
         LET s == ScheduleStep(current_date, daily_hours, client, inspector, vacations_df)
         IN  /\ clients_df' = Append(clients_df, client)
             /\ current_date' = s.current_date
             /\ fallback' = (fallback \/ s.fell_back)
             /\ scheduled_visits' = Append(scheduled_visits, s.visit)
             /\ daily_hours' = s.daily_hours
    /\ UNCHANGED <<inspector, start_date, vacations_df, pcS>>
    /\ UNCHANGED notSched

\* the loop over the rows i.. of a whole tour
RECURSIVE ScheduleRows(_, _, _, _, _, _)
ScheduleRows(rows, i, date0, hours0, insp, vac) ==
    IF i > Len(rows) THEN <<>>
    ELSE LET s == ScheduleStep(date0, hours0, rows[i], insp, vac)
         IN  <<s.visit>> \o ScheduleRows(rows, i + 1, s.current_date, s.daily_hours, insp, vac)

\* lines 362-405: schedule_daily(clients_df, inspector, start_date, vacations_df)
schedule_daily(rows, insp, start, vac) ==
    ScheduleRows(rows, 1, next_available_date(start, insp, vac, NoCustomHolidays), 0, insp, vac)

\* line 405: the tour is exhausted, return pd.DataFrame(scheduled_visits)
ScheduleReturn ==
    /\ pcS = "loop"
    /\ pcS' = "done"
    /\ UNCHANGED <<clients_df, inspector, start_date, vacations_df, current_date,
                   daily_hours, scheduled_visits, fallback>>
    /\ UNCHANGED notSched

-----------------------------------------------------------------------------
(* planner_engine.py: assign_inspectors, update_inspector_assignment       *)

Regioni == {"Lombardia", "Liguria", "Toscana"}

\* inspector names a caller passes to update_inspector_assignment: three of
\* the roster and one that the roster does not hold
EditInspectors == {"Paolo", "Adrian", "Salvatore", "Giovanni"}

\* the value of a cell that was never set
NaN == "NaN"

NoUpdate ==
    [called |-> FALSE, planning_df |-> <<>>, visit_index |-> 0, new_inspector |-> "",
     region |-> "", success |-> FALSE, message |-> NoMessage, updated_df |-> <<>>]

\* the candidates handed to assign_inspectors: rows 0..n-1 with a region and
\* no inspector column yet
PlanCall ==
    /\ \E regs \in SeqsUpTo(Regioni, MaxVisits) :
          planning_df = [i \in 1..Len(regs) |->
                            [index |-> i - 1, Regione |-> regs[i], Ispettore |-> NaN]]
    /\ last_update = NoUpdate
    /\ edits = 0
    /\ pcP = "assign"

\* lines 306-326: every row gets available[0] when one inspector is available
\* and any member of available (random.choice) otherwise
AssignInspectors ==
    /\ pcP = "assign"
    /\ \E choice \in [1..Len(planning_df) -> ALL_INSPECTORS] :
          /\ \A i \in 1..Len(planning_df) :
                choice[i] \in get_available_inspectors(planning_df[i].Regione)
          /\ planning_df' = [i \in 1..Len(planning_df) |->
                                [planning_df[i] EXCEPT !.Ispettore = choice[i]]]
    /\ pcP' = "edit"
    /\ UNCHANGED <<last_update, edits>>
    /\ UNCHANGED notPlan

Labels(df) == {df[i].index : i \in 1..Len(df)}

\* df.at[label, "Ispettore"] = value: sets the cell of the row labelled `label`;
\* a label the index does not hold enlarges the table by a row whose other
\* cells are NaN
SetIspettoreAt(df, label, value) ==
    IF label \in Labels(df)
    THEN [i \in 1..Len(df) |->
             IF df[i].index = label THEN [df[i] EXCEPT !.Ispettore = value] ELSE df[i]]
    ELSE Append(df, [index |-> label, Regione |-> NaN, Ispettore |-> value])

\* lines 668-678: (success, message, updated_df)
update_inspector_assignment(df, visit_index, new_inspector, region) ==
    LET v == validate_inspector_assignment(new_inspector, region)
    IN  IF ~v.is_valid
        THEN [success |-> FALSE, message |-> v.message, updated_df |-> df]
        ELSE [success |-> TRUE,
              message |-> IF v.message.text # "" THEN v.message
                          ELSE [text |-> "Assegnazione aggiornata", region |-> ""],
              updated_df |-> SetIspettoreAt(df, visit_index, new_inspector)]

\* one call of update_inspector_assignment; the caller keeps the returned table
UpdateInspectorAssignment ==
    /\ pcP = "edit"
    /\ edits < MaxEdits
    /\ \E visit_index \in 0..MaxVisits, new_inspector \in EditInspectors, region \in Regioni :
          LET r == update_inspector_assignment(planning_df, visit_index, new_inspector, region)
          IN  /\ last_update' =
                    [called |-> TRUE, planning_df |-> planning_df,
                     visit_index |-> visit_index, new_inspector |-> new_inspector,
                     region |-> region, success |-> r.success, message |-> r.message,
                     updated_df |-> r.updated_df]
              /\ planning_df' = r.updated_df
    /\ edits' = edits + 1
    /\ UNCHANGED pcP
    /\ UNCHANGED notPlan

-----------------------------------------------------------------------------
(* planner_engine.py: match_orders                                         *)

\* (name, address) cells of the rows of the two tables: the first two have the
\* same normalized key, the third another name, the fourth another address
KeyPairs ==
    { [name |-> Str(<<"a">>),      addr |-> Str(<<"b">>)],
      [name |-> Str(<<" ", "A">>), addr |-> Str(<<"B", " ">>)],
      [name |-> Str(<<"b">>),      addr |-> Str(<<"b">>)],
      [name |-> Str(<<"a">>),      addr |-> Str(<<"a", " ", "b">>)] }

OrderIds == {1, 2}

CustomerRow(id, k) ==
    [ID_Cliente |-> id, Nome_del_Cliente |-> k.name, Indirizzo_completo |-> k.addr]

OrderRow(id, k) == [ID_Ordine |-> id, Cliente |-> k.name, Indirizzo_Sede |-> k.addr]

\* match_orders(anagrafica_df, ordini_df) is called on two tables
MatchCall ==
    /\ \E ks \in SeqsUpTo(KeyPairs, MaxCustomers) :
          anagrafica_df = [i \in 1..Len(ks) |-> CustomerRow(i, ks[i])]
    /\ \E ks \in SeqsUpTo(KeyPairs, MaxOrders) :
       \E ids \in [1..Len(ks) -> OrderIds] :
          ordini_df = [i \in 1..Len(ks) |-> OrderRow(ids[i], ks[i])]
    /\ matched = <<>>
    /\ unmatched = <<>>
    /\ pcM = "call"

\* df["cliente_norm"] = ...; df["indirizzo_norm"] = ...: the table gains two columns
WithNormColumns(df, nameCol, addrCol) ==
    [i \in 1..Len(df) |->
        [f \in (DOMAIN df[i]) \cup {"cliente_norm", "indirizzo_norm"} |->
            IF f = "cliente_norm" THEN normalize_string(df[i][nameCol])
            ELSE IF f = "indirizzo_norm" THEN normalize_string(df[i][addrCol])
            ELSE df[i][f]]]

SameKey(o, a) ==
    o.cliente_norm = a.cliente_norm /\ o.indirizzo_norm = a.indirizzo_norm

\* a row of the merge, the two key columns dropped (line 94)
MergedRow(o, a) ==
    [f \in ((DOMAIN o) \cup (DOMAIN a)) \ {"cliente_norm", "indirizzo_norm"} |->
        IF f \in DOMAIN o THEN o[f] ELSE a[f]]

\* the merged rows of order row o with the customer rows j.. in table order
RECURSIVE MergeRowsOf(_, _, _)
MergeRowsOf(o, a_df, j) ==
    IF j > Len(a_df) THEN <<>>
    ELSE (IF SameKey(o, a_df[j]) THEN <<MergedRow(o, a_df[j])>> ELSE <<>>)
             \o MergeRowsOf(o, a_df, j + 1)

\* lines 82-87: inner join on the two key columns, in the order of the left keys
RECURSIVE Merge(_, _, _)
Merge(o_df, a_df, i) ==
    IF i > Len(o_df) THEN <<>>
    ELSE MergeRowsOf(o_df[i], a_df, 1) \o Merge(o_df, a_df, i + 1)

\* line 91: an order is unmatched when its ID_Ordine is not among the matched ids
IsUnmatched(o, matched_order_ids) == o.ID_Ordine \notin matched_order_ids

\* lines 89-95: the unmatched order rows, the two key columns dropped
RECURSIVE Unmatched(_, _, _)
Unmatched(o_df, matched_order_ids, i) ==
    IF i > Len(o_df) THEN <<>>
    ELSE (IF IsUnmatched(o_df[i], matched_order_ids)
          THEN <<[ID_Ordine |-> o_df[i].ID_Ordine, Cliente |-> o_df[i].Cliente,
                  Indirizzo_Sede |-> o_df[i].Indirizzo_Sede]>>
          ELSE <<>>)
             \o Unmatched(o_df, matched_order_ids, i + 1)

\* lines 70-97: the two tables gain their key columns, and the matched and
\* unmatched tables are returned
match_orders ==
    /\ pcM = "call"
    /\ LET a_df == WithNormColumns(anagrafica_df, "Nome_del_Cliente", "Indirizzo_completo")
           o_df == WithNormColumns(ordini_df, "Cliente", "Indirizzo_Sede")
           m    == Merge(o_df, a_df, 1)
           ids  == {m[k].ID_Ordine : k \in 1..Len(m)}
       IN  /\ anagrafica_df' = a_df
           /\ ordini_df' = o_df
           /\ matched' = m
           /\ unmatched' = Unmatched(o_df, ids, 1)
    /\ pcM' = "done"

\* a call of match_orders on its own
MatchOrders ==
    /\ match_orders
    /\ UNCHANGED notMatch

\* the characters of the strings given to normalize_string
InputChars == {"a", "A", "b", " ", "\t"}

Cells == {Str(s) : s \in SeqsUpTo(InputChars, MaxStrLen)} \cup {NotStr}

NormCustomers ==
    { [name |-> Str(<<"a", " ", "b">>),             addr |-> Str(<<"b">>)],
      [name |-> Str(<<" ", "A", "\t", " ", "B">>),  addr |-> Str(<<"B", " ">>)],
      [name |-> Str(<<"A">>),                       addr |-> Str(<<"b">>)],
      [name |-> NotStr,                             addr |-> NotStr] }

NormAddresses == {Str(<<"b">>), Str(<<" ", "B">>), NotStr}

\* match_orders is called on one customer and one order whose name is any cell
NormCall ==
    /\ \E k \in NormCustomers : anagrafica_df = <<CustomerRow(1, k)>>
    /\ \E c \in Cells, a \in NormAddresses :
          ordini_df = <<OrderRow(1, [name |-> c, addr |-> a])>>
    /\ matched = <<>>
    /\ unmatched = <<>>
    /\ pcM = "call"

-----------------------------------------------------------------------------
(* planner_engine.py: tsp_nearest_neighbor                                 *)

\* coordinates (latitude, longitude) in hundredths of a degree; a latitude
\* outside [-90, 90] degrees is one geodesic() rejects with an exception
Coords == {<<4546, 919>>, <<4608, 1318>>, <<4608, 919>>, <<4377, 1125>>, <<9100, 0>>}

\* config.py INSPECTORS[...]["base_coords"]
base_coords_of(insp) == IF insp = "Paolo" THEN <<4546, 919>> ELSE <<4608, 1318>>

BaseCoords == {base_coords_of(i) : i \in ALL_INSPECTORS}

ValidCoords(c) == c[1] >= -9000 /\ c[1] <= 9000

Abs(n) == IF n < 0 THEN -n ELSE n

\* kilometres of one degree of latitude and of one degree of longitude at the
\* latitudes of Coords
KmPerDegreeLat == 111

KmPerDegreeLon == 78

\* geodesic(coord1, coord2).kilometers, to whole kilometres on the grid of
\* Coords: symmetric, zero between equal points
geodesic_km(coord1, coord2) ==
    (KmPerDegreeLat * Abs(coord1[1] - coord2[1])
        + KmPerDegreeLon * Abs(coord1[2] - coord2[2])) \div 100

\* utils.py calculate_distance: the geodesic distance, 0.0 on any exception
calculate_distance(coord1, coord2) ==
    IF ValidCoords(coord1) /\ ValidCoords(coord2)
    THEN geodesic_km(coord1, coord2)
    ELSE 0

\* a row of the clients table; id stands for the other columns of the row
ClientRow(id, c) == [id |-> id, lat |-> c[1], lon |-> c[2]]

ClientCoords(row) == <<row.lat, row.lon>>

TspCall ==
    /\ \E cs \in SeqsUpTo(Coords, MaxStops) :
          tsp_clients = [i \in 1..Len(cs) |-> ClientRow(i, cs[i])]
    /\ base_coords \in BaseCoords
    /\ unvisited = <<>>
    /\ tour = <<>>
    /\ current_coords = <<0, 0>>
    /\ total_km = 0
    /\ tour_df = <<>>
    /\ pcT = "start"

\* lines 242-249: an empty table is returned as it is; otherwise the locals
\* are initialised
TspStart ==
    /\ pcT = "start"
    /\ IF Len(tsp_clients) = 0
       THEN /\ tour_df' = tsp_clients
            /\ pcT' = "done"
            /\ UNCHANGED <<unvisited, tour, current_coords, total_km>>
       ELSE /\ unvisited' = tsp_clients
            /\ tour' = <<>>
            /\ current_coords' = base_coords
            /\ total_km' = 0
            /\ pcT' = "loop"
            /\ UNCHANGED tour_df
    /\ UNCHANGED <<tsp_clients, base_coords>>
    /\ UNCHANGED notTsp

\* a choice of the last row of least distance
Nearest_LastOfLeast(unv, cur) ==
    CHOOSE i \in 1..Len(unv) :
        \A j \in 1..Len(unv) :
            LET di == calculate_distance(cur, ClientCoords(unv[i]))
                dj == calculate_distance(cur, ClientCoords(unv[j]))
            IN  di < dj \/ (di = dj /\ i >= j)

\* lines 253-260: min(distances, key=...) is the first row of least distance
Nearest(unv, cur) ==
    CHOOSE i \in 1..Len(unv) :
        \A j \in 1..Len(unv) :
            LET di == calculate_distance(cur, ClientCoords(unv[i]))
                dj == calculate_distance(cur, ClientCoords(unv[j]))
            IN  di < dj \/ (di = dj /\ i <= j)

\* a drop that always removes the last row
DropRow_Last(unv, nearest_idx) == SubSeq(unv, 1, Len(unv) - 1)

\* line 274: unvisited.drop(nearest_idx).reset_index(drop=True)
DropRow(unv, nearest_idx) ==
    [k \in 1..(Len(unv) - 1) |-> IF k < nearest_idx THEN unv[k] ELSE unv[k + 1]]

\* a position that never leaves where it is
NextPosition_Stay(cur, client) == cur

\* line 271: the new current position
NextPosition(cur, client) == ClientCoords(client)

\* lines 252-274: the body of the while loop, from the unvisited table and
\* the current position
TspStep(unv, cur) ==
    LET nearest_idx    == Nearest(unv, cur)
        distance       == calculate_distance(cur, ClientCoords(unv[nearest_idx]))
        nearest_client == WithFields(unv[nearest_idx], [km_from_previous |-> distance])
    IN  [distance       |-> distance,
         nearest_client |-> nearest_client,
         current_coords |-> NextPosition(cur, nearest_client),
         unvisited      |-> DropRow(unv, nearest_idx)]

\* lines 251-274: one iteration of the while loop
TspVisit ==
    /\ pcT = "loop"
    /\ Len(unvisited) > 0
    /\ LET s == TspStep(unvisited, current_coords)
       IN  /\ total_km' = total_km + s.distance
           /\ tour' = Append(tour, s.nearest_client)
           /\ current_coords' = s.current_coords
           /\ unvisited' = s.unvisited
    /\ UNCHANGED <<tsp_clients, base_coords, tour_df, pcT>>
    /\ UNCHANGED notTsp

\* the while loop as a whole
RECURSIVE TspTour(_, _)
TspTour(unv, cur) ==
    IF unv = <<>> THEN <<>>
    ELSE LET s == TspStep(unv, cur)
         IN  <<s.nearest_client>> \o TspTour(s.unvisited, s.current_coords)

\* lines 242-279: tsp_nearest_neighbor(clients_df, base_coords)
tsp_nearest_neighbor(clients, base) ==
    IF Len(clients) = 0 THEN clients ELSE TspTour(clients, base)

\* lines 277-279: the loop is over, the tour becomes the returned table
TspReturn ==
    /\ pcT = "loop"
    /\ Len(unvisited) = 0
    /\ tour_df' = tour
    /\ pcT' = "done"
    /\ UNCHANGED <<tsp_clients, base_coords, unvisited, tour, current_coords, total_km>>
    /\ UNCHANGED notTsp

-----------------------------------------------------------------------------

(* planner_engine.py: generate_renewals_list                               *)

renewal_alert_days == 90

\* pd.to_datetime(..., errors="coerce") of a reference cell: midnight of the
\* day the cell names, or NaT for a cell that is no date
NaT == [isDate |-> FALSE, day |-> 0, tod |-> 0]

DateCell(day) == [isDate |-> TRUE, day |-> day, tod |-> 0]

\* the instants at which the function runs: midnight sharp or later in the day
Todays == {Datetime(338, 0), Datetime(338, 1)}

AlertDays == {2, renewal_alert_days}

\* reference cells around the two ends of the window
ReferenceCells(now, window) ==
    {NaT} \cup {DateCell(now.day + k) : k \in {-1, 0, 1, window - 1, window, window + 1}}

\* Timestamp comparison; every comparison with NaT is False
CellLeqDt(cell, dt) == cell.isDate /\ DtLeq(Datetime(cell.day, cell.tod), dt)

DtLeqCell(dt, cell) == cell.isDate /\ DtLeq(dt, Datetime(cell.day, cell.tod))

\* (cell - today).dt.days: whole days of the difference, rounded down
DaysBetween(cell, now) ==
    IF cell.tod >= now.tod THEN cell.day - now.day ELSE cell.day - now.day - 1

\* lines 497-500: the row filter
InRenewalWindow(cell, now, alert_date) ==
    CellLeqDt(cell, alert_date) /\ DtLeqCell(now, cell)

RECURSIVE SelectRenewals(_, _, _)
SelectRenewals(rows, now, alert_date) ==
    IF rows = <<>> THEN <<>>
    ELSE LET r    == Head(rows)
             rest == SelectRenewals(Tail(rows), now, alert_date)
         IN  IF InRenewalWindow(r.Data_riferimento, now, alert_date)
             THEN <<[ID_Cliente |-> r.ID_Cliente,
                     Giorni_a_Scadenza |-> DaysBetween(r.Data_riferimento, now)]>> \o rest
             ELSE rest

\* line 522: sort_values("Giorni_a_Scadenza"), rows of equal key in table order
RECURSIVE InsertByDays(_, _)
InsertByDays(sorted, r) ==
    IF sorted = <<>> THEN <<r>>
    ELSE IF r.Giorni_a_Scadenza < Head(sorted).Giorni_a_Scadenza THEN <<r>> \o sorted
    ELSE <<Head(sorted)>> \o InsertByDays(Tail(sorted), r)

RECURSIVE SortByDays(_)
SortByDays(rows) ==
    IF rows = <<>> THEN <<>>
    ELSE InsertByDays(SortByDays(SubSeq(rows, 1, Len(rows) - 1)), rows[Len(rows)])

RenewCall ==
    /\ today \in Todays
    /\ alert_days \in AlertDays
    /\ \E cells \in SeqsUpTo(ReferenceCells(today, alert_days), MaxCustomers) :
          ren_anagrafica_df = [i \in 1..Len(cells) |->
                                  [ID_Cliente |-> i, Data_riferimento |-> cells[i]]]
    /\ renewals = <<>>
    /\ pcR = "call"

\* lines 492-494: anagrafica_df["Data_Riferimento_DT"] = pd.to_datetime(...):
\* the caller's table gains the column of the parsed reference dates
WithReferenceDT(df) ==
    [i \in 1..Len(df) |->
        WithFields(df[i], [Data_Riferimento_DT |-> df[i].Data_riferimento])]

\* lines 485-524
GenerateRenewalsList ==
    /\ pcR = "call"
    /\ LET alert_date == PlusDays(today, alert_days)
       IN  renewals' = SortByDays(SelectRenewals(ren_anagrafica_df, today, alert_date))
    /\ ren_anagrafica_df' = WithReferenceDT(ren_anagrafica_df)
    /\ pcR' = "done"
    /\ UNCHANGED <<alert_days, today>>
    /\ UNCHANGED notRenew

-----------------------------------------------------------------------------

(* planner_engine.py: geocode_addresses                                    *)

\* config.py REGIONAL_COORDS, in hundredths of a degree
REGIONAL_COORDS ==
    [r \in {"Abruzzo", "Basilicata", "Calabria", "Campania", "Emilia-Romagna",
            "Friuli-Venezia Giulia", "Lazio", "Liguria", "Lombardia", "Marche",
            "Molise", "Piemonte", "Puglia", "Sardegna", "Sicilia", "Toscana",
            "Trentino-Alto Adige", "Umbria", "Valle d'Aosta", "Veneto"} |->
        CASE r = "Abruzzo"               -> <<4235, 1340>>
          [] r = "Basilicata"            -> <<4064, 1580>>
          [] r = "Calabria"              -> <<3931, 1625>>
          [] r = "Campania"              -> <<4083, 1425>>
          [] r = "Emilia-Romagna"        -> <<4449, 1134>>
          [] r = "Friuli-Venezia Giulia" -> <<4564, 1378>>
          [] r = "Lazio"                 -> <<4190, 1250>>
          [] r = "Liguria"               -> <<4441, 893>>
          [] r = "Lombardia"             -> <<4546, 919>>
          [] r = "Marche"                -> <<4362, 1352>>
          [] r = "Molise"                -> <<4156, 1466>>
          [] r = "Piemonte"              -> <<4507, 769>>
          [] r = "Puglia"                -> <<4113, 1687>>
          [] r = "Sardegna"              -> <<4012, 901>>
          [] r = "Sicilia"               -> <<3812, 1336>>
          [] r = "Toscana"               -> <<4377, 1125>>
          [] r = "Trentino-Alto Adige"   -> <<4607, 1112>>
          [] r = "Umbria"                -> <<4311, 1239>>
          [] r = "Valle d'Aosta"         -> <<4574, 743>>
          [] r = "Veneto"                -> <<4544, 1232>>]

\* what geolocator.geocode(query) does: a location, None, or an exception
\* (timeout, service error)
Found(c) == [kind |-> "found", coords |-> c]

NoResult == [kind |-> "none", coords |-> <<0, 0>>]

LookupError == [kind |-> "exception", coords |-> <<0, 0>>]

GeoAnswers == {Found(<<4606, 1324>>), NoResult, LookupError}

\* regions of the records: two of the table, one outside it, and a missing cell
GeoRegions == {"Lombardia", "Toscana", "Estero", NaN}

\* the signature of the callback handed in: none, the (current, total, message)
\* of the docstring, or the (step, message) of generate_planning's callers
GeoCallbacks == {"none", "current_total_message", "step_message"}

GeoCall ==
    /\ \E regs \in SeqsUpTo(GeoRegions, MaxRecords) :
          geo_df = [i \in 1..Len(regs) |-> [index |-> i - 1, Regione |-> regs[i]]]
    /\ geo_callback \in GeoCallbacks
    /\ geo_answers = <<>>
    /\ geo_error = ""
    /\ pcGeo = "start"

\* lines 129-133: the lat and lon columns are added, 0.0 in every row
GeoStart ==
    /\ pcGeo = "start"
    /\ geo_df' = [i \in 1..Len(geo_df) |-> WithFields(geo_df[i], [lat |-> 0, lon |-> 0])]
    /\ pcGeo' = "loop"
    /\ UNCHANGED <<geo_callback, geo_answers, geo_error>>
    /\ UNCHANGED notGeo

\* a fallback that never substitutes anything
RegionalFallback_Never(region, cur) == cur

\* lines 153-157 and 162-166: the centroid of the region when the table has it
RegionalFallback(region, cur) ==
    IF region \in DOMAIN REGIONAL_COORDS THEN REGIONAL_COORDS[region] ELSE cur

\* lines 144-166: the coordinates of a record after its lookup
Geocoded(row, answer) ==
    LET c == IF answer.kind = "found" THEN answer.coords
             ELSE RegionalFallback(row.Regione, <<row.lat, row.lon>>)
    IN  WithFields(row, [lat |-> c[1], lon |-> c[2]])

\* lines 137-142: progress_callback(idx + 1, total, message) raises TypeError
\* when the callback takes two arguments
CallbackRaises(cb, nargs) ==
    \/ cb = "step_message" /\ nargs # 2
    \/ cb = "current_total_message" /\ nargs # 3

\* lines 135-169: one iteration of the loop over the records
GeoRow ==
    /\ pcGeo = "loop"
    /\ Len(geo_answers) < Len(geo_df)
    /\ LET i == Len(geo_answers) + 1
       IN  IF CallbackRaises(geo_callback, 3)
           THEN /\ geo_error' = "TypeError"
                /\ pcGeo' = "raised"
                /\ UNCHANGED <<geo_df, geo_answers>>
           ELSE \E answer \in GeoAnswers :
                   /\ geo_df' = [geo_df EXCEPT ![i] = Geocoded(geo_df[i], answer)]
                   /\ geo_answers' = Append(geo_answers, answer)
                   /\ UNCHANGED <<geo_error, pcGeo>>
    /\ UNCHANGED geo_callback
    /\ UNCHANGED notGeo

\* line 172: return df
GeoReturn ==
    /\ pcGeo = "loop"
    /\ Len(geo_answers) = Len(geo_df)
    /\ pcGeo' = "done"
    /\ UNCHANGED <<geo_df, geo_callback, geo_answers, geo_error>>
    /\ UNCHANGED notGeo

-----------------------------------------------------------------------------

(* planner_engine.py: cluster_geographic, generate_tours, generate_planning *)

default_clusters == 8

\* the first row of the table with the coordinates of row i
FirstWithCoords(df, i) ==
    CHOOSE j \in 1..i :
        /\ ClientCoords(df[j]) = ClientCoords(df[i])
        /\ \A k \in 1..(j - 1) : ClientCoords(df[k]) # ClientCoords(df[i])

\* lines 196-213, for a table of at most default_clusters rows: n_clusters is
\* min(n_clusters, len(df)), so K-means has a centre for every distinct point
\* and rows share a cluster exactly when they share their coordinates.  The
\* label of a cluster is the number of clusters that begin before it.
cluster_geographic(df) ==
    [i \in 1..Len(df) |->
        WithFields(df[i],
            [cluster_id |->
                Cardinality({FirstWithCoords(df, j) : j \in 1..Len(df)}
                                \cap (1..(FirstWithCoords(df, i) - 1)))])]

\* the points of the tables handed to cluster_geographic on its own
ClusterCoords == {<<4546, 919>>, <<4608, 1318>>, <<4377, 1125>>}

\* n_clusters: None, or a number below, at or above the number of rows
NoClusters == [given |-> FALSE, n |-> 0]

RequestedClusters == {NoClusters} \cup {[given |-> TRUE, n |-> k] : k \in {-1, 0, 1, 2, 3, 9}}

ClusterCall ==
    /\ \E cs \in SeqsUpTo(ClusterCoords, MaxStops) :
          cl_df = [i \in 1..Len(cs) |-> ClientRow(i, cs[i])]
    /\ cl_n_clusters \in RequestedClusters
    /\ cl_kmeans = FALSE
    /\ cl_error = ""
    /\ pcC = "call"

\* the requested count taken as it is
EffectiveClusters_Requested(n_clusters, n) ==
    IF n_clusters.given THEN n_clusters.n ELSE default_clusters

\* lines 196-200: None is the default, then n_clusters = min(n_clusters, len(df))
EffectiveClusters(n_clusters, n) ==
    LET k == IF n_clusters.given THEN n_clusters.n ELSE default_clusters
    IN  IF k < n THEN k ELSE n

\* the labels KMeans(n_clusters=k).fit_predict(coords) may give the rows:
\* integers of 0..k-1, the same for rows of the same coordinates
KMeansLabels(df, k) ==
    {l \in [1..Len(df) -> 0..(k - 1)] :
        \A i, j \in 1..Len(df) : ClientCoords(df[i]) = ClientCoords(df[j]) => l[i] = l[j]}

\* lines 196-213: cluster_geographic(df, n_clusters); KMeans refuses more
\* clusters than rows with a ValueError
ClusterGeographic ==
    /\ pcC = "call"
    /\ LET k == EffectiveClusters(cl_n_clusters, Len(cl_df))
       IN  IF k < 1
           THEN /\ cl_df' = [i \in 1..Len(cl_df) |-> WithFields(cl_df[i], [cluster_id |-> 0])]
                /\ pcC' = "done"
                /\ UNCHANGED <<cl_kmeans, cl_error>>
           ELSE IF k > Len(cl_df)
           THEN /\ cl_kmeans' = TRUE
                /\ cl_error' = "ValueError"
                /\ pcC' = "raised"
                /\ UNCHANGED cl_df
           ELSE /\ \E l \in KMeansLabels(cl_df, k) :
                      cl_df' = [i \in 1..Len(cl_df) |->
                                   WithFields(cl_df[i], [cluster_id |-> l[i]])]
                /\ cl_kmeans' = TRUE
                /\ pcC' = "done"
                /\ UNCHANGED cl_error
    /\ UNCHANGED cl_n_clusters
    /\ UNCHANGED notCluster

\* the inspector names in the order groupby and sort_values put them
InspectorOrder == <<"Adrian", "Mattia", "Paolo", "Salvatore">>

InspectorRank(insp) == CHOOSE r \in 1..Len(InspectorOrder) : InspectorOrder[r] = insp

\* line 435: the keys of df.groupby(["Ispettore", "cluster_id"]), in sorted order
GroupKeys(df) ==
    LET n    == Len(df)
        all  == [k \in 1..(Len(InspectorOrder) * n) |->
                    <<InspectorOrder[((k - 1) \div n) + 1], (k - 1) % n>>]
        used == {<<df[i].Ispettore, df[i].cluster_id>> : i \in 1..n}
    IN  SelectSeq(all, LAMBDA key : key \in used)

\* a group made of every row of the inspector, whatever its cluster
GroupRows_WholeInspector(df, key) == SelectSeq(df, LAMBDA row : row.Ispettore = key[1])

\* line 435: the rows of one group, in table order
GroupRows(df, key) ==
    SelectSeq(df, LAMBDA row : row.Ispettore = key[1] /\ row.cluster_id = key[2])

NoVacations == [present |-> FALSE, rows |-> <<>>]

\* lines 437-446: the scheduled tour of one group; schedule_daily is called
\* without start_date, so the tour starts at `now`
GroupTour(df, key, now) ==
    LET group          == GroupRows(df, key)
        optimized_tour == tsp_nearest_neighbor(group, base_coords_of(key[1]))
        scheduled_tour == schedule_daily(optimized_tour, key[1], now, NoVacations)
    IN  [k \in 1..Len(scheduled_tour) |->
            WithFields(scheduled_tour[k], [Tour_Zona |-> <<"Cluster", key[2], key[1]>>])]

\* the order of sort_values(["Ispettore", "Data", "Settimana"])
PlanningBefore(a, b) ==
    LET ka == <<InspectorRank(a.Ispettore), a.Data.day, a.Data.tod, a.Settimana>>
        kb == <<InspectorRank(b.Ispettore), b.Data.day, b.Data.tod, b.Settimana>>
    IN  \E p \in 1..4 : ka[p] < kb[p] /\ \A q \in 1..(p - 1) : ka[q] = kb[q]

\* an insertion that puts a row before the rows of its own key
RECURSIVE InsertPlanning_BeforeEqual(_, _)
InsertPlanning_BeforeEqual(sorted, r) ==
    IF sorted = <<>> THEN <<r>>
    ELSE IF ~PlanningBefore(Head(sorted), r) THEN <<r>> \o sorted
    ELSE <<Head(sorted)>> \o InsertPlanning_BeforeEqual(Tail(sorted), r)

\* sort_values on several columns is a stable sort: a row goes after the rows
\* of its own key that precede it in the table
RECURSIVE InsertPlanning(_, _)
InsertPlanning(sorted, r) ==
    IF sorted = <<>> THEN <<r>>
    ELSE IF PlanningBefore(r, Head(sorted)) THEN <<r>> \o sorted
    ELSE <<Head(sorted)>> \o InsertPlanning(Tail(sorted), r)

RECURSIVE SortPlanning(_)
SortPlanning(rows) ==
    IF rows = <<>> THEN <<>>
    ELSE InsertPlanning(SortPlanning(SubSeq(rows, 1, Len(rows) - 1)), rows[Len(rows)])

\* lines 451-461: pd.concat(all_tours, ignore_index=True) numbers the rows, and
\* sort_values keeps each row's number as its label
CompletePlanning(all_tours) ==
    SortPlanning([k \in 1..Len(all_tours) |-> WithFields(all_tours[k], [index |-> k - 1])])

\* lines 432-448: the tours of the groups, one after the other
RECURSIVE AllTours(_, _, _)
AllTours(df, keys, now) ==
    IF keys = <<>> THEN <<>>
    ELSE GroupTour(df, Head(keys), now) \o AllTours(df, Tail(keys), now)

\* lines 432-461: generate_tours(df), run at the instant `now`
generate_tours(df, now) == CompletePlanning(AllTours(df, GroupKeys(df), now))

\* the instants datetime.now() may return: a Friday and the Saturday after
\* it.  One invocation is short against a day: all its readings are equal.
Nows == {Datetime(338, 1), Datetime(339, 1)}

\* The caller holds a planning that generate_tours returned for candidates of
\* 2 h each, the first at (46.06, 13.24) and the others at the centre of
\* their region, clustered and assigned, and is about to edit it.
EditCall ==
    /\ \E regs \in SeqsUpTo(Regioni, MaxVisits), now \in Nows :
       \E choice \in [1..Len(regs) -> ALL_INSPECTORS] :
          /\ \A i \in 1..Len(regs) : choice[i] \in get_available_inspectors(regs[i])
          /\ planning_df =
                generate_tours(
                    cluster_geographic(
                        [i \in 1..Len(regs) |->
                            [ID_Cliente |-> i,
                             Regione    |-> regs[i],
                             Ore_lavoro |-> 2 * UnitsPerHour,
                             lat        |-> IF i = 1 THEN 4606 ELSE REGIONAL_COORDS[regs[i]][1],
                             lon        |-> IF i = 1 THEN 1324 ELSE REGIONAL_COORDS[regs[i]][2],
                             Ispettore  |-> choice[i]]]),
                    now)
    /\ last_update = NoUpdate
    /\ edits = 0
    /\ pcP = "edit"

PlanningCustomer(id, k, region, ore) ==
    WithFields(CustomerRow(id, k),
               [Regione |-> region, Ore_lavoro |-> ore, Data_riferimento |-> DateCell(340)])

\* the customer tables: a customer of Paolo's region and one of a national
\* region, or two customers of Paolo's region with the same name and address
PlanningCustomers ==
    { << PlanningCustomer(1, [name |-> Str(<<"a">>), addr |-> Str(<<"b">>)],
                          "Lombardia", 7 * UnitsPerHour),
         PlanningCustomer(2, [name |-> Str(<<"b">>), addr |-> Str(<<"b">>)],
                          "Toscana", 7 * UnitsPerHour) >>,
      << PlanningCustomer(1, [name |-> Str(<<"a">>), addr |-> Str(<<"b">>)],
                          "Lombardia", 2 * UnitsPerHour),
         PlanningCustomer(2, [name |-> Str(<<"A", " ">>), addr |-> Str(<<"b">>)],
                          "Lombardia", 2 * UnitsPerHour) >> }

\* the names and addresses of the orders: of customer 1, of customer 2 of the
\* first table, of no customer
PlanningOrderKeys ==
    { [name |-> Str(<<" ", "A">>), addr |-> Str(<<"B", " ">>)],
      [name |-> Str(<<"b">>),      addr |-> Str(<<"b">>)],
      [name |-> Str(<<"a">>),      addr |-> Str(<<"a", " ", "b">>)] }

\* the geolocator's answers for customer 1 and customer 2
PlanningGeo ==
    { <<Found(<<4606, 1324>>), NoResult>>,
      <<NoResult, NoResult>>,
      <<Found(<<4606, 1324>>), Found(<<4606, 1324>>)>> }

\* the (step, message) callback of app.py, or none
PlanningCallbacks == {"none", "step_message"}

NoTables == [anagrafica |-> <<>>, ordini |-> <<>>]

NoResults == [keys |-> {}, unmatched_orders |-> <<>>, planning |-> <<>>, renewals |-> <<>>,
              stats |-> [ordini_matchati |-> 0, visite_pianificate |-> 0]]

NoPrevious == [outcome |-> "", error |-> "", events |-> <<>>, callback |-> "",
               results |-> NoResults]

\* progress_callback(step, message), when a callback was given
Announce(cb, step) == IF cb = "none" THEN <<>> ELSE << <<"callback", step>> >>

Completed(step) == << <<"stage", step>> >>

PlanningCall ==
    /\ anagrafica_df \in PlanningCustomers
    /\ \E ks \in SeqsUpTo(PlanningOrderKeys, MaxCandidates) :
          ordini_df = [i \in 1..Len(ks) |-> OrderRow(i, ks[i])]
    /\ matched = <<>>
    /\ unmatched = <<>>
    /\ pcM = "call"
    /\ gp_inputs = [anagrafica |-> anagrafica_df, ordini |-> ordini_df]
    /\ gp_callback \in PlanningCallbacks
    /\ gp_geo \in PlanningGeo
    /\ gp_matched = <<>>
    /\ gp_todo = <<>>
    /\ gp_all_tours = <<>>
    /\ gp_clock \in Nows
    /\ gp_results = NoResults
    /\ gp_events = <<>>
    /\ gp_error = ""
    /\ gp_run = 1
    /\ gp_previous = NoPrevious
    /\ pcG = "match"

\* a test that never finds the matched table empty
NoMatches_Never(m) == FALSE

\* line 583: len(matched) == 0
NoMatches(m) == Len(m) = 0

\* lines 576-587: step 1
PlanningMatch ==
    /\ pcG = "match"
    /\ match_orders
    /\ gp_matched' = matched'
    /\ gp_results' = [gp_results EXCEPT !.unmatched_orders = unmatched',
                                        !.keys = @ \cup {"unmatched_orders"}]
    /\ gp_events' = gp_events \o Announce(gp_callback, 1) \o Completed(1)
    /\ IF NoMatches(matched')
       THEN /\ gp_error' = "ValueError"
            /\ pcG' = "raised"
       ELSE /\ pcG' = "geocode"
            /\ UNCHANGED gp_error
    /\ UNCHANGED <<gp_inputs, gp_callback, gp_geo, gp_todo, gp_all_tours, gp_clock, gp_run,
                   gp_previous>>
    /\ UNCHANGED notPlanning

\* lines 589-593: step 2; geocode_addresses calls the callback with the three
\* arguments of its own signature as soon as the table has a row
PlanningGeocode ==
    /\ pcG = "geocode"
    /\ LET zeroed == [i \in 1..Len(gp_matched) |->
                         WithFields(gp_matched[i], [lat |-> 0, lon |-> 0])]
       IN  IF Len(gp_matched) > 0 /\ CallbackRaises(gp_callback, 3)
           THEN /\ gp_matched' = zeroed
                /\ gp_events' = gp_events \o Announce(gp_callback, 2)
                /\ gp_error' = "TypeError"
                /\ pcG' = "raised"
           ELSE /\ gp_matched' = [i \in 1..Len(zeroed) |->
                                     Geocoded(zeroed[i], gp_geo[zeroed[i].ID_Cliente])]
                /\ gp_events' = gp_events \o Announce(gp_callback, 2) \o Completed(2)
                /\ pcG' = "cluster"
                /\ UNCHANGED gp_error
    /\ UNCHANGED <<gp_inputs, gp_callback, gp_geo, gp_todo, gp_all_tours, gp_clock,
                   gp_results, gp_run, gp_previous>>
    /\ UNCHANGED <<matchVars, notPlanning>>

\* lines 595-599: step 3, with n_clusters left to its default
PlanningCluster ==
    /\ pcG = "cluster"
    /\ gp_matched' = cluster_geographic(gp_matched)
    /\ gp_events' = gp_events \o Announce(gp_callback, 3) \o Completed(3)
    /\ pcG' = "assign"
    /\ UNCHANGED <<gp_inputs, gp_callback, gp_geo, gp_todo, gp_all_tours, gp_clock,
                   gp_results, gp_error, gp_run, gp_previous>>
    /\ UNCHANGED <<matchVars, notPlanning>>

\* lines 601-605: step 4; assign_inspectors draws with random.choice
PlanningAssign ==
    /\ pcG = "assign"
    /\ \E choice \in [1..Len(gp_matched) -> ALL_INSPECTORS] :
          /\ \A i \in 1..Len(gp_matched) :
                choice[i] \in get_available_inspectors(gp_matched[i].Regione)
          /\ gp_matched' = [i \in 1..Len(gp_matched) |->
                               WithFields(gp_matched[i], [Ispettore |-> choice[i]])]
    /\ gp_events' = gp_events \o Announce(gp_callback, 4) \o Completed(4)
    /\ pcG' = "tours"
    /\ UNCHANGED <<gp_inputs, gp_callback, gp_geo, gp_todo, gp_all_tours, gp_clock,
                   gp_results, gp_error, gp_run, gp_previous>>
    /\ UNCHANGED <<matchVars, notPlanning>>

\* lines 607-611 and 432-435: step 5 begins, generate_tours groups the table
ToursStart ==
    /\ pcG = "tours"
    /\ gp_todo' = GroupKeys(gp_matched)
    /\ gp_all_tours' = <<>>
    /\ gp_events' = gp_events \o Announce(gp_callback, 5)
    /\ pcG' = "tour_loop"
    /\ UNCHANGED <<gp_inputs, gp_callback, gp_geo, gp_matched, gp_clock, gp_results,
                   gp_error, gp_run, gp_previous>>
    /\ UNCHANGED <<matchVars, notPlanning>>

\* lines 435-448: one iteration of the loop over the groups
ToursGroup ==
    /\ pcG = "tour_loop"
    /\ gp_todo # <<>>
    /\ gp_all_tours' = gp_all_tours \o GroupTour(gp_matched, Head(gp_todo), gp_clock)
    /\ gp_todo' = Tail(gp_todo)
    /\ UNCHANGED <<gp_inputs, gp_callback, gp_geo, gp_matched, gp_clock, gp_results,
                   gp_events, gp_error, gp_run, gp_previous, pcG>>
    /\ UNCHANGED <<matchVars, notPlanning>>

\* lines 450-461 and 612: generate_tours returns the planning
ToursReturn ==
    /\ pcG = "tour_loop"
    /\ gp_todo = <<>>
    /\ gp_results' = [gp_results EXCEPT !.planning = CompletePlanning(gp_all_tours),
                                        !.keys = @ \cup {"planning"}]
    /\ gp_events' = gp_events \o Completed(5)
    /\ pcG' = "renewals"
    /\ UNCHANGED <<gp_inputs, gp_callback, gp_geo, gp_matched, gp_todo, gp_all_tours,
                   gp_clock, gp_error, gp_run, gp_previous>>
    /\ UNCHANGED <<matchVars, notPlanning>>

\* lines 614-634: step 6 and the statistics; generate_renewals_list adds its
\* Data_Riferimento_DT column to the caller's customer table
PlanningRenewals ==
    /\ pcG = "renewals"
    /\ gp_results' =
          [gp_results EXCEPT
              !.renewals = SortByDays(SelectRenewals(anagrafica_df, gp_clock,
                                          PlusDays(gp_clock, renewal_alert_days))),
              !.stats = [ordini_matchati    |-> Len(gp_matched),
                         visite_pianificate |-> Len(gp_results.planning)],
              !.keys = @ \cup {"renewals", "stats"}]
    /\ anagrafica_df' = WithReferenceDT(anagrafica_df)
    /\ gp_events' = gp_events \o Announce(gp_callback, 6) \o Completed(6)
    /\ pcG' = "done"
    /\ UNCHANGED <<gp_inputs, gp_callback, gp_geo, gp_matched, gp_todo, gp_all_tours,
                   gp_clock, gp_error, gp_run, gp_previous>>
    /\ UNCHANGED <<ordini_df, matched, unmatched, pcM>>
    /\ UNCHANGED notPlanning

\* the caller invokes generate_planning once more, on tables equal to those
\* of the first invocation and with the same geolocator answers
PlanningAgain ==
    /\ pcG \in {"done", "raised"}
    /\ gp_run = 1
    /\ gp_previous' = [outcome |-> pcG, error |-> gp_error, events |-> gp_events,
                       callback |-> gp_callback, results |-> gp_results]
    /\ gp_run' = 2
    /\ anagrafica_df' = gp_inputs.anagrafica
    /\ ordini_df' = gp_inputs.ordini
    /\ matched' = <<>>
    /\ unmatched' = <<>>
    /\ pcM' = "call"
    /\ gp_callback' \in PlanningCallbacks
    /\ \E now \in Nows :
          /\ DtLeq(gp_clock, now)
          /\ gp_clock' = now
    /\ gp_matched' = <<>>
    /\ gp_todo' = <<>>
    /\ gp_all_tours' = <<>>
    /\ gp_results' = NoResults
    /\ gp_events' = <<>>
    /\ gp_error' = ""
    /\ pcG' = "match"
    /\ UNCHANGED <<gp_inputs, gp_geo>>
    /\ UNCHANGED notPlanning

-----------------------------------------------------------------------------

(* utils.py: next_available_date, called on its own                       *)

\* start dates from Friday 2025-12-05 to Monday 2025-12-15, at midnight and
\* at a later time of day
NadStartDates == {Datetime(d, t) : d \in 338..348, t \in {0, 1}}

\* None, one custom date, two custom dates
NadCustomHolidays == {{}, {342}, {344, 345}}

NadInspectors == {"", "Adrian"}

NextAvailableCall ==
    /\ nad_start_date \in NadStartDates
    /\ nad_inspector \in NadInspectors
    /\ nad_vacations_df \in VacationTables
    /\ nad_custom \in NadCustomHolidays
    /\ nad_result = Datetime(0, 0)
    /\ nad_examined = 0
    /\ pcN = "call"

\* lines 276-289
NextAvailableDate ==
    /\ pcN = "call"
    /\ LET r == NextAvailableSearch(nad_start_date, nad_inspector, nad_vacations_df,
                                    nad_custom)
       IN  /\ nad_result' = r.date
           /\ nad_examined' = r.examined
    /\ pcN' = "done"
    /\ UNCHANGED <<nad_start_date, nad_inspector, nad_vacations_df, nad_custom>>
    /\ UNCHANGED notNextAvailable

-----------------------------------------------------------------------------

(* Specifications                                                          *)

IdleSched ==
    /\ clients_df = <<>>
    /\ inspector = ""
    /\ start_date = Datetime(0, 0)
    /\ vacations_df = [present |-> FALSE, rows |-> <<>>]
    /\ current_date = Datetime(0, 0)
    /\ daily_hours = 0
    /\ scheduled_visits = <<>>
    /\ fallback = FALSE
    /\ pcS = "idle"

IdlePlan ==
    /\ planning_df = <<>>
    /\ last_update = NoUpdate
    /\ edits = 0
    /\ pcP = "idle"

IdleMatch ==
    /\ anagrafica_df = <<>>
    /\ ordini_df = <<>>
    /\ matched = <<>>
    /\ unmatched = <<>>
    /\ pcM = "idle"

IdleTsp ==
    /\ tsp_clients = <<>>
    /\ base_coords = <<0, 0>>
    /\ unvisited = <<>>
    /\ tour = <<>>
    /\ current_coords = <<0, 0>>
    /\ total_km = 0
    /\ tour_df = <<>>
    /\ pcT = "idle"

IdleRenew ==
    /\ ren_anagrafica_df = <<>>
    /\ alert_days = 0
    /\ today = Datetime(0, 0)
    /\ renewals = <<>>
    /\ pcR = "idle"

IdleGeo ==
    /\ geo_df = <<>>
    /\ geo_callback = "none"
    /\ geo_answers = <<>>
    /\ geo_error = ""
    /\ pcGeo = "idle"

IdlePlanning ==
    /\ gp_inputs = NoTables
    /\ gp_callback = "none"
    /\ gp_geo = <<>>
    /\ gp_matched = <<>>
    /\ gp_todo = <<>>
    /\ gp_all_tours = <<>>
    /\ gp_clock = Datetime(0, 0)
    /\ gp_results = NoResults
    /\ gp_events = <<>>
    /\ gp_error = ""
    /\ gp_run = 0
    /\ gp_previous = NoPrevious
    /\ pcG = "idle"

IdleNextAvailable ==
    /\ nad_start_date = Datetime(0, 0)
    /\ nad_inspector = ""
    /\ nad_vacations_df = NoVacations
    /\ nad_custom = {}
    /\ nad_result = Datetime(0, 0)
    /\ nad_examined = 0
    /\ pcN = "idle"

IdleCluster ==
    /\ cl_df = <<>>
    /\ cl_n_clusters = NoClusters
    /\ cl_kmeans = FALSE
    /\ cl_error = ""
    /\ pcC = "idle"

\* every entry point but `called` has not been called
IdleBut(called) ==
    /\ IF called = "schedule_daily" THEN TRUE ELSE IdleSched
    /\ IF called = "assign_inspectors" THEN TRUE ELSE IdlePlan
    /\ IF called \in {"match_orders", "generate_planning"} THEN TRUE ELSE IdleMatch
    /\ IF called = "tsp_nearest_neighbor" THEN TRUE ELSE IdleTsp
    /\ IF called = "generate_renewals_list" THEN TRUE ELSE IdleRenew
    /\ IF called = "geocode_addresses" THEN TRUE ELSE IdleGeo
    /\ IF called = "generate_planning" THEN TRUE ELSE IdlePlanning
    /\ IF called = "next_available_date" THEN TRUE ELSE IdleNextAvailable
    /\ IF called = "cluster_geographic" THEN TRUE ELSE IdleCluster

\* schedule_daily
InitSched == SchedCall /\ IdleBut("schedule_daily")

NextSched == ScheduleStart \/ ScheduleVisit \/ ScheduleReturn

SpecSched == InitSched /\ [][NextSched]_vars

\* assign_inspectors, then update_inspector_assignment calls
InitPlan == PlanCall /\ IdleBut("assign_inspectors")

NextPlan == AssignInspectors \/ UpdateInspectorAssignment

SpecPlan == InitPlan /\ [][NextPlan]_vars

\* match_orders on tables of several rows
InitMatch == MatchCall /\ IdleBut("match_orders")

NextMatch == MatchOrders

SpecMatch == InitMatch /\ [][NextMatch]_vars

\* match_orders on one customer and one order of arbitrary name
InitNorm == NormCall /\ IdleBut("match_orders")

SpecNorm == InitNorm /\ [][NextMatch]_vars

\* tsp_nearest_neighbor
InitTsp == TspCall /\ IdleBut("tsp_nearest_neighbor")

NextTsp == TspStart \/ TspVisit \/ TspReturn

SpecTsp == InitTsp /\ [][NextTsp]_vars

\* generate_renewals_list
InitRenew == RenewCall /\ IdleBut("generate_renewals_list")

NextRenew == GenerateRenewalsList

SpecRenew == InitRenew /\ [][NextRenew]_vars

\* geocode_addresses
InitGeo == GeoCall /\ IdleBut("geocode_addresses")

NextGeo == GeoStart \/ GeoRow \/ GeoReturn

SpecGeo == InitGeo /\ [][NextGeo]_vars

\* generate_planning, invoked twice on the same tables
InitPlanning == PlanningCall /\ IdleBut("generate_planning")

NextPlanning ==
    \/ PlanningMatch
    \/ PlanningGeocode
    \/ PlanningCluster
    \/ PlanningAssign
    \/ ToursStart
    \/ ToursGroup
    \/ ToursReturn
    \/ PlanningRenewals
    \/ PlanningAgain

SpecPlanning == InitPlanning /\ [][NextPlanning]_vars

\* next_available_date
InitNextAvailable == NextAvailableCall /\ IdleBut("next_available_date")

NextNextAvailable == NextAvailableDate

SpecNextAvailable == InitNextAvailable /\ [][NextNextAvailable]_vars

\* update_inspector_assignment calls on a planning of generate_tours
InitEdit == EditCall /\ IdleBut("assign_inspectors")

NextEdit == UpdateInspectorAssignment

SpecEdit == InitEdit /\ [][NextEdit]_vars

\* cluster_geographic
InitCluster == ClusterCall /\ IdleBut("cluster_geographic")

NextCluster == ClusterGeographic

SpecCluster == InitCluster /\ [][NextCluster]_vars

\* any one of the entry points
Init ==
    \/ InitSched \/ InitPlan \/ InitMatch \/ InitNorm \/ InitTsp \/ InitRenew \/ InitGeo
    \/ InitPlanning \/ InitNextAvailable \/ InitCluster \/ InitEdit

Next ==
    \/ NextSched \/ NextPlan \/ NextMatch \/ NextTsp \/ NextRenew \/ NextGeo
    \/ NextPlanning \/ NextNextAvailable \/ NextCluster

Spec == Init /\ [][Next]_vars

-----------------------------------------------------------------------------
(* Properties of assign_inspectors and update_inspector_assignment         *)

PlanRows == 1..Len(planning_df)

\* C1: after assign_inspectors every candidate of an allow-list region has
\* Paolo, and no candidate of another region has Paolo, whatever the choices.
C1_TerritorialAfterAssign ==
    (pcP = "edit" /\ edits = 0) =>
        \A i \in PlanRows :
            (planning_df[i].Regione \in PAOLO_REGIONS) <=> (planning_df[i].Ispettore = "Paolo")

\* assign_inspectors has run on candidates of both kinds of region
C1_Witness ==
    /\ pcP = "edit" /\ edits = 0
    /\ \E i, j \in PlanRows :
          /\ planning_df[i].Regione \in PAOLO_REGIONS
          /\ planning_df[j].Regione \notin PAOLO_REGIONS

\* C2: after any sequence of update_inspector_assignment calls every visit
\* assigned to Paolo has its own region in the allow-list.  (Stated for the
\* visits that carry a region.)
C2_PaoloOnlyInOwnRegions ==
    pcP = "edit" =>
        \A i \in PlanRows :
            (planning_df[i].Ispettore = "Paolo" /\ planning_df[i].Regione # NaN)
                => planning_df[i].Regione \in PAOLO_REGIONS

\* C10: a call with Paolo and a region outside the allow-list returns
\* success = FALSE, a non-empty message and the input table unchanged.
C10_RejectedLeavesPlanUnchanged ==
    (/\ last_update.called
     /\ last_update.new_inspector = "Paolo"
     /\ last_update.region \notin PAOLO_REGIONS)
    => /\ ~last_update.success
       /\ last_update.message.text # ""
       /\ last_update.updated_df = last_update.planning_df
       /\ planning_df = last_update.planning_df

\* such a call was made on a non-empty plan, with a visit_index the plan does
\* not hold
C10_Witness ==
    /\ last_update.called
    /\ last_update.new_inspector = "Paolo"
    /\ last_update.region \notin PAOLO_REGIONS
    /\ Len(last_update.planning_df) > 0
    /\ last_update.visit_index \notin Labels(last_update.planning_df)

\* C11: an accepted call returns a table with the visits of the input table,
\* in which only the Ispettore cell of the visit labelled visit_index differs,
\* whatever visit_index is.
C11_AcceptedChangesOneInspectorOnly ==
    (last_update.called /\ last_update.success) =>
        /\ Len(last_update.updated_df) = Len(last_update.planning_df)
        /\ \A i \in 1..Len(last_update.planning_df) :
              /\ last_update.updated_df[i].index = last_update.planning_df[i].index
              /\ last_update.updated_df[i].Regione = last_update.planning_df[i].Regione
              /\ (last_update.planning_df[i].index # last_update.visit_index
                    => last_update.updated_df[i].Ispettore
                         = last_update.planning_df[i].Ispettore)

\* C27: an accepted update_inspector_assignment(plan, i, ...) on a planning of
\* generate_tours sets the inspector of the visit at position i of the
\* planning (positions counted from 0, as the caller reads the rows) and
\* leaves every other visit as it was.
C27_EditsVisitAtPosition ==
    (/\ last_update.called
     /\ last_update.success
     /\ last_update.visit_index < Len(last_update.planning_df))
    => /\ Len(last_update.updated_df) = Len(last_update.planning_df)
       /\ \A j \in 1..Len(last_update.planning_df) :
             IF j = last_update.visit_index + 1
             THEN last_update.updated_df[j].Ispettore = last_update.new_inspector
             ELSE last_update.updated_df[j] = last_update.planning_df[j]

\* C28: after any sequence of update_inspector_assignment calls the inspector
\* of every visit is one of ALL_INSPECTORS, and a call that names an inspector
\* outside ALL_INSPECTORS returns the planning it was given.
C28_InspectorsStayInRoster ==
    pcP = "edit" =>
        /\ \A i \in PlanRows : planning_df[i].Ispettore \in ALL_INSPECTORS
        /\ (last_update.called /\ last_update.new_inspector \notin ALL_INSPECTORS)
              => last_update.updated_df = last_update.planning_df

-----------------------------------------------------------------------------
(* Properties of schedule_daily                                            *)

Visits == 1..Len(scheduled_visits)

RequiredHours(i) == total_hours(scheduled_visits[i])

SameDay(i, j) == scheduled_visits[i].Data.day = scheduled_visits[j].Data.day

RECURSIVE SumHours(_)
SumHours(S) ==
    IF S = {} THEN 0
    ELSE LET i == CHOOSE x \in S : TRUE IN RequiredHours(i) + SumHours(S \ {i})

OnDayOf(i) == {j \in Visits : SameDay(i, j)}

\* C3: on every assigned date the required hours of its visits sum to at most
\* the date's budget (6.5 h on a Friday, 8 h otherwise), unless the date holds
\* a single visit whose own required hours exceed the full-day budget.
C3_DailyBudgetRespected ==
    \A i \in Visits :
        \/ SumHours(OnDayOf(i)) <= max_daily_hours(scheduled_visits[i].Data)
        \/ (OnDayOf(i) = {i} /\ RequiredHours(i) > max_hours_per_day)

NoWeekendOrHoliday ==
    \A i \in Visits :
        /\ Weekday(scheduled_visits[i].Data) \notin {5, 6}
        /\ scheduled_visits[i].Data.day \notin ITALIAN_HOLIDAYS

DayInVacationOf(day, insp, vac) ==
    /\ vac.present
    /\ \E k \in 1..Len(vac.rows) :
          /\ vac.rows[k].Ispettore = insp
          /\ vac.rows[k].Data_Inizio <= day
          /\ day <= vac.rows[k].Data_Fine

\* C5: no visit is assigned a date inside a vacation interval of the tour's
\* inspector, first and last day included, whatever the time of day of the
\* start date.  (Stated for the runs in which no search fell back, so that a
\* violation is not one of the documented fallback.)
C5_NeverInsideOwnVacation ==
    ~fallback =>
        \A i \in Visits :
            ~DayInVacationOf(scheduled_visits[i].Data.day, inspector, vacations_df)

\* C6: with the accumulator at zero, a visit whose required hours alone exceed
\* the full-day budget is assigned the current date: the scheduler does not
\* advance the date first.
C6_OversizedStaysOnCurrentDate ==
    [][(/\ pcS = "loop"
        /\ daily_hours = 0
        /\ Len(scheduled_visits') = Len(scheduled_visits) + 1
        /\ total_hours(clients_df'[Len(clients_df')]) > max_hours_per_day)
       => current_date' = current_date]_vars

\* C7: two consecutive visits whose combined required hours exceed the
\* standard daily budget are assigned two distinct calendar dates.
C7_OverBudgetPairSplit ==
    \A i \in Visits :
        (i + 1 \in Visits /\ RequiredHours(i) + RequiredHours(i + 1) > max_hours_per_day)
            => ~SameDay(i, i + 1)

\* an over-budget pair of visits scheduled by searches that took the fallback
C7_Witness ==
    /\ fallback
    /\ \E i \in Visits :
          /\ i + 1 \in Visits
          /\ RequiredHours(i) + RequiredHours(i + 1) > max_hours_per_day
          /\ RequiredHours(i) <= max_hours_per_day

\* visit i is the first visit of its date
FirstOfDate(i) == i = 1 \/ scheduled_visits[i].Data # scheduled_visits[i - 1].Data

\* C29: the dates of the visits never decrease along the tour and the first
\* is on or after the start date; the accumulated hours recorded with the
\* first visit of a date are that visit's own required hours, and those
\* recorded with any other visit are the hours of the visit before it plus
\* its own: the accumulator restarts when the date advances and only then.
C29_DatesAscendHoursRestart ==
    /\ \A i \in Visits :
          /\ DtLeq(IF i = 1 THEN start_date ELSE scheduled_visits[i - 1].Data,
                   scheduled_visits[i].Data)
          /\ scheduled_visits[i].Ore_Totali_Giorno =
                IF FirstOfDate(i) THEN RequiredHours(i)
                ELSE scheduled_visits[i - 1].Ore_Totali_Giorno + RequiredHours(i)
    /\ (Visits # {} =>
          /\ current_date = scheduled_visits[Len(scheduled_visits)].Data
          /\ daily_hours = scheduled_visits[Len(scheduled_visits)].Ore_Totali_Giorno)

\* a finished tour that began after its start date, has two visits on its
\* first date and a third on a later date
C29_Witness ==
    /\ pcS = "done"
    /\ Len(scheduled_visits) = 3
    /\ scheduled_visits[1].Data.day > start_date.day
    /\ scheduled_visits[2].Data = scheduled_visits[1].Data
    /\ scheduled_visits[3].Data.day > scheduled_visits[2].Data.day

-----------------------------------------------------------------------------
(* Properties of match_orders and normalize_string                         *)

Orders == 1..Len(ordini_df)

Customers == 1..Len(anagrafica_df)

HasCustomer(i) == \E j \in Customers : SameKey(ordini_df[i], anagrafica_df[j])

SameOrder(row, i) ==
    /\ row.ID_Ordine = ordini_df[i].ID_Ordine
    /\ row.Cliente = ordini_df[i].Cliente
    /\ row.Indirizzo_Sede = ordini_df[i].Indirizzo_Sede

InMatched(i) == \E k \in 1..Len(matched) : SameOrder(matched[k], i)

InUnmatched(i) == \E k \in 1..Len(unmatched) : SameOrder(unmatched[k], i)

IdsOf(df) == {df[k].ID_Ordine : k \in 1..Len(df)}

\* C8: every order whose key equals a customer's key is in the matched set,
\* every order with no such customer is in the unmatched set, and by order id
\* the two sets are disjoint and cover the orders of the input.
C8_MatchPartitionsOrders ==
    pcM = "done" =>
        /\ \A i \in Orders : HasCustomer(i) => InMatched(i)
        /\ \A i \in Orders : ~HasCustomer(i) => InUnmatched(i)
        /\ IdsOf(matched) \cap IdsOf(unmatched) = {}
        /\ IdsOf(matched) \cup IdsOf(unmatched) = IdsOf(ordini_df)

LowerChar(c) == CASE c = "A" -> "a" [] c = "B" -> "b" [] OTHER -> c

\* the words of a string (its maximal runs of non-whitespace), in lower case
RECURSIVE FoldedWords(_, _)
FoldedWords(s, word) ==
    IF s = <<>> THEN (IF word = <<>> THEN <<>> ELSE <<word>>)
    ELSE IF IsSpace(Head(s))
         THEN (IF word = <<>> THEN <<>> ELSE <<word>>) \o FoldedWords(Tail(s), <<>>)
         ELSE FoldedWords(Tail(s), Append(word, LowerChar(Head(s))))

\* two strings that differ only in letter case, in leading or trailing
\* whitespace, or in their interior whitespace runs
Similar(c, d) == c.isStr /\ d.isStr /\ FoldedWords(c.s, <<>>) = FoldedWords(d.s, <<>>)

PairMatched(i, j) ==
    \E k \in 1..Len(matched) :
        SameOrder(matched[k], i) /\ matched[k].ID_Cliente = anagrafica_df[j].ID_Cliente

\* C9: an order and a customer whose names and addresses differ only in case
\* and whitespace are matched, and the normalized form of a non-string cell is
\* the empty string.
C9_MatchIgnoresCaseAndWhitespace ==
    pcM = "done" =>
        /\ \A i \in Orders, j \in Customers :
              (/\ Similar(ordini_df[i].Cliente, anagrafica_df[j].Nome_del_Cliente)
               /\ Similar(ordini_df[i].Indirizzo_Sede, anagrafica_df[j].Indirizzo_completo))
              => PairMatched(i, j)
        /\ \A i \in Orders :
              /\ ~ordini_df[i].Cliente.isStr => ordini_df[i].cliente_norm = <<>>
              /\ ~ordini_df[i].Indirizzo_Sede.isStr => ordini_df[i].indirizzo_norm = <<>>
        /\ \A j \in Customers :
              ~anagrafica_df[j].Nome_del_Cliente.isStr => anagrafica_df[j].cliente_norm = <<>>

\* an order matched with a customer whose name differs in case, in trailing
\* whitespace and in an interior whitespace run, and whose address differs too
C9_Witness ==
    /\ pcM = "done"
    /\ \E k \in 1..Len(matched) :
          /\ matched[k].Nome_del_Cliente = Str(<<"a", " ", "b">>)
          /\ matched[k].Cliente = Str(<<"A", "\t", "b", " ">>)
          /\ matched[k].Indirizzo_Sede # matched[k].Indirizzo_completo

-----------------------------------------------------------------------------
(* Properties of tsp_nearest_neighbor                                      *)

Stops == 1..Len(tour_df)

\* C12: the returned tour holds every row of the input exactly once and has
\* the length of the input; an empty input gives an empty tour.
C12_TourIsPermutation ==
    pcT = "done" =>
        /\ Len(tour_df) = Len(tsp_clients)
        /\ \A i \in 1..Len(tsp_clients) :
              Cardinality({k \in Stops : /\ tour_df[k].id = tsp_clients[i].id
                                         /\ tour_df[k].lat = tsp_clients[i].lat
                                         /\ tour_df[k].lon = tsp_clients[i].lon}) = 1

\* a returned tour of three stops that is not in the order of the input
C12_Witness ==
    /\ pcT = "done"
    /\ Len(tour_df) = 3
    /\ \E k \in Stops : tour_df[k].id # k

\* C13: km_from_previous of the first stop is the distance from the base to
\* it, and of every other stop the distance from the stop before it.
C13_KmFromPredecessor ==
    pcT = "done" =>
        \A k \in Stops :
            tour_df[k].km_from_previous =
                calculate_distance(IF k = 1 THEN base_coords
                                   ELSE <<tour_df[k - 1].lat, tour_df[k - 1].lon>>,
                                   <<tour_df[k].lat, tour_df[k].lon>>)

\* a returned tour whose first stop is away from the base and whose second
\* stop is away from the first
C13_Witness ==
    /\ pcT = "done"
    /\ Len(tour_df) >= 2
    /\ tour_df[1].km_from_previous > 0
    /\ tour_df[2].km_from_previous > 0
    /\ <<tour_df[1].lat, tour_df[1].lon>> # base_coords

\* where the salesman stands when stop k is chosen
PositionBefore(k) ==
    IF k = 1 THEN base_coords ELSE <<tour_df[k - 1].lat, tour_df[k - 1].lon>>

DistanceFrom(k, j) == calculate_distance(PositionBefore(k), <<tour_df[j].lat, tour_df[j].lon>>)

\* C22: every stop of the returned tour is, among the stops not yet visited
\* when it was chosen, at least distance from the position of that moment, and
\* of those at that same distance it is the one that comes first in the input.
C22_NearestFirstOccurrence ==
    pcT = "done" =>
        \A k \in Stops : \A j \in Stops :
            j > k =>
                \/ DistanceFrom(k, k) < DistanceFrom(k, j)
                \/ (DistanceFrom(k, k) = DistanceFrom(k, j) /\ tour_df[k].id < tour_df[j].id)

\* a returned tour of three stops whose first choice was between two rows at the
\* same positive least distance and was not the first row of the input
C22_Witness ==
    /\ pcT = "done"
    /\ Len(tour_df) = 3
    /\ tour_df[1].id = 2
    /\ DistanceFrom(1, 1) > 0
    /\ \E j \in {2, 3} : tour_df[j].id = 3 /\ DistanceFrom(1, j) = DistanceFrom(1, 1)

-----------------------------------------------------------------------------
(* Properties of generate_renewals_list                                    *)

RenewalIds == {renewals[k].ID_Cliente : k \in 1..Len(renewals)}

\* C14: the customers selected are exactly those whose reference date is a
\* day of today .. today + window, both ends included, whatever the time of
\* day of the run.
C14_RenewalsInClosedWindow ==
    pcR = "done" =>
        \A i \in 1..Len(ren_anagrafica_df) :
            LET cell == ren_anagrafica_df[i].Data_riferimento
            IN  (ren_anagrafica_df[i].ID_Cliente \in RenewalIds)
                    <=> /\ cell.isDate
                        /\ today.day <= cell.day
                        /\ cell.day <= today.day + alert_days

\* the reference cell of the customer of row k of the renewals list
ReferenceOf(k) ==
    LET i == CHOOSE j \in 1..Len(ren_anagrafica_df) :
                 ren_anagrafica_df[j].ID_Cliente = renewals[k].ID_Cliente
    IN  ren_anagrafica_df[i].Data_riferimento

\* C30: every row of the renewals list has, as days to expiry, the number of
\* calendar days from today's date to its reference date, a number of
\* 0 .. window, and the rows are in ascending order of it.
C30_DaysToExpiryAreCalendarDays ==
    pcR = "done" =>
        \A k \in 1..Len(renewals) :
            /\ renewals[k].Giorni_a_Scadenza = ReferenceOf(k).day - today.day
            /\ renewals[k].Giorni_a_Scadenza \in 0..alert_days
            /\ (k > 1 => renewals[k - 1].Giorni_a_Scadenza <= renewals[k].Giorni_a_Scadenza)

-----------------------------------------------------------------------------
(* Properties of geocode_addresses                                         *)

LookupFailed(i) == geo_answers[i].kind \in {"none", "exception"}

\* C16: a record whose lookup failed has the centroid of its region when the
\* table holds the region and (0.0, 0.0) otherwise; no lookup failure leaves
\* the function as an error, and the function returns only after every
\* record was looked up.
C16_LookupFailureFallsBack ==
    /\ \A i \in 1..Len(geo_answers) :
          LookupFailed(i) =>
              <<geo_df[i].lat, geo_df[i].lon>> =
                  IF geo_df[i].Regione \in DOMAIN REGIONAL_COORDS
                  THEN REGIONAL_COORDS[geo_df[i].Regione]
                  ELSE <<0, 0>>
    /\ (pcGeo = "raised" => geo_callback = "step_message" /\ geo_error = "TypeError")
    /\ (pcGeo = "done" => Len(geo_answers) = Len(geo_df))

\* the function returned after a failed lookup of a record of a known region,
\* followed by a failed lookup of a record of an unknown region
C16_Witness ==
    /\ pcGeo = "done"
    /\ Len(geo_answers) = 2
    /\ geo_answers[1].kind = "exception"
    /\ geo_df[1].Regione = "Toscana"
    /\ geo_answers[2].kind = "none"
    /\ geo_df[2].Regione = "Estero"

-----------------------------------------------------------------------------
(* Properties of generate_planning and generate_tours                      *)

\* the steps whose stage has run to its end, in order
StagesOf(events) ==
    LET done == SelectSeq(events, LAMBDA e : e[1] = "stage")
    IN  [k \in 1..Len(done) |-> done[k][2]]

MatchingDone == pcG \notin {"idle", "match"}

\* C15: with no matched candidate generate_planning raises its ValueError
\* when only the matching has run and returns no plan; with a matched
\* candidate it does not raise that error.
C15_ZeroMatchesAbort ==
    MatchingDone =>
        IF Len(matched) = 0
        THEN /\ pcG = "raised"
             /\ gp_error = "ValueError"
             /\ StagesOf(gp_events) = <<1>>
             /\ "planning" \notin gp_results.keys
        ELSE gp_error # "ValueError"

\* the first invocation aborted on orders none of which has a customer
C15_Witness ==
    /\ gp_run = 1
    /\ pcG = "raised"
    /\ gp_error = "ValueError"
    /\ Len(ordini_df) = 2
    /\ Len(unmatched) = 2

Planning == gp_results.planning

\* C17: two invocations on equal tables, with equal geolocator answers, return
\* the same planning.
C17_SamePlanningTwice ==
    (gp_run = 2 /\ pcG = "done" /\ gp_previous.outcome = "done")
        => Planning = gp_previous.results.planning

\* the visit of the other planning made of the same order and customer
SameCandidate(a, b) == a.ID_Ordine = b.ID_Ordine /\ a.ID_Cliente = b.ID_Cliente

\* C17 (amended): two invocations on equal tables, with equal geolocator
\* answers, return plannings of the same candidates, each with the same
\* region, coordinates and cluster, and with the same inspector when its
\* region is one of Paolo's; the other inspectors and the dates are free.
C17_SameVisitsTwice ==
    (gp_run = 2 /\ pcG = "done" /\ gp_previous.outcome = "done") =>
        LET before == gp_previous.results.planning
        IN  /\ Len(Planning) = Len(before)
            /\ \A k \in 1..Len(Planning) :
                  \E j \in 1..Len(before) :
                      /\ SameCandidate(Planning[k], before[j])
                      /\ Planning[k].Regione = before[j].Regione
                      /\ Planning[k].lat = before[j].lat
                      /\ Planning[k].lon = before[j].lon
                      /\ Planning[k].cluster_id = before[j].cluster_id
                      /\ (Planning[k].Regione \in PAOLO_REGIONS
                            => Planning[k].Ispettore = before[j].Ispettore)

\* the second invocation gave a visit of a national region another inspector
\* and another date than the first
C17_Witness ==
    /\ gp_run = 2
    /\ pcG = "done"
    /\ gp_previous.outcome = "done"
    /\ \E k \in 1..Len(Planning) :
       \E j \in 1..Len(gp_previous.results.planning) :
          /\ SameCandidate(Planning[k], gp_previous.results.planning[j])
          /\ Planning[k].Ispettore # gp_previous.results.planning[j].Ispettore
          /\ Planning[k].Data # gp_previous.results.planning[j].Data

\* C18: on equal tables the invocation with a (step, message) callback runs
\* the stages of the invocation without a callback and ends as it does.
C18_CallbackLeavesFlowAlone ==
    (gp_run = 2 /\ pcG \in {"done", "raised"})
        => /\ pcG = gp_previous.outcome
           /\ gp_error = gp_previous.error
           /\ StagesOf(gp_events) = StagesOf(gp_previous.events)

\* the rows of the planning made of row i of the matched table
VisitsOf(i) ==
    {k \in 1..Len(Planning) : /\ Planning[k].ID_Ordine = gp_matched[i].ID_Ordine
                              /\ Planning[k].ID_Cliente = gp_matched[i].ID_Cliente}

\* C19: the planning generate_tours returns has one visit for every matched
\* candidate and no other: the visit is in the tour of the candidate's
\* inspector and cluster and has one date.
C19_OneVisitPerCandidate ==
    pcG \in {"renewals", "done"} =>
        /\ Len(Planning) = Len(gp_matched)
        /\ \A i \in 1..Len(gp_matched) :
              /\ Cardinality(VisitsOf(i)) = 1
              /\ \A k \in VisitsOf(i) :
                    /\ Planning[k].Tour_Zona =
                          <<"Cluster", gp_matched[i].cluster_id, gp_matched[i].Ispettore>>
                    /\ Planning[k].Data.day \in Int

\* a planning of two visits of one inspector in two clusters
C19_Witness ==
    /\ pcG = "done"
    /\ Len(Planning) = 2
    /\ Planning[1].Ispettore = Planning[2].Ispettore
    /\ Planning[1].Tour_Zona # Planning[2].Tour_Zona

\* the visits of the tour of one (inspector, cluster) group, as the planning
\* lists them
TourInPlanning(key) ==
    SelectSeq(Planning, LAMBDA row : row.Tour_Zona = <<"Cluster", key[2], key[1]>>)

\* the tour of the group as tsp_nearest_neighbor hands it to schedule_daily
TourToSchedule(key) ==
    tsp_nearest_neighbor(GroupRows(gp_matched, key), base_coords_of(key[1]))

\* C25: the visits of every tour stand in the planning in the order in which
\* the tour was handed to schedule_daily, and each is the row handed in, its
\* task hours and km_from_previous included, with nothing but the scheduling
\* columns (and the tour name and row label) added.
C25_ToursKeepTheirOrder ==
    pcG \in {"renewals", "done"} =>
        \A p \in 1..Len(GroupKeys(gp_matched)) :
            LET key      == GroupKeys(gp_matched)[p]
                handed   == TourToSchedule(key)
                listed   == TourInPlanning(key)
            IN  /\ Len(listed) = Len(handed)
                /\ \A k \in 1..Len(handed) :
                      /\ \A f \in DOMAIN handed[k] : listed[k][f] = handed[k][f]
                      /\ (DOMAIN listed[k]) \ (DOMAIN handed[k]) =
                            {"Data", "Settimana", "Giorno", "Ore_Totali_Giorno",
                             "Tour_Zona", "index"}

\* a planning in which the sort put the visits of another tour between two
\* visits of one tour, and in which two visits of a tour have the same date
C25_Witness ==
    /\ pcG = "done"
    /\ \E i, j, k \in 1..Len(Planning) :
          /\ i < j /\ j < k
          /\ Planning[i].Tour_Zona = Planning[k].Tour_Zona
          /\ Planning[j].Tour_Zona # Planning[i].Tour_Zona
    /\ \E i, j \in 1..Len(Planning) :
          /\ i # j
          /\ Planning[i].Tour_Zona = Planning[j].Tour_Zona
          /\ Planning[i].Data = Planning[j].Data

\* the visits of the planning that have the inspector and the calendar date of
\* visit k
SameInspectorAndDate(k) ==
    {j \in 1..Len(Planning) : /\ Planning[j].Ispettore = Planning[k].Ispettore
                              /\ Planning[j].Data.day = Planning[k].Data.day}

RECURSIVE PlannedHours(_)
PlannedHours(S) ==
    IF S = {} THEN 0
    ELSE LET j == CHOOSE x \in S : TRUE
         IN  total_hours(Planning[j]) + PlannedHours(S \ {j})

\* C26: in the planning generate_tours returns, the required hours of all the
\* visits of one inspector on one calendar date, whatever tours they belong
\* to, sum to at most the budget of that date, unless the date holds a single
\* visit whose own required hours exceed the full-day budget.
C26_InspectorDayWithinBudget ==
    pcG \in {"renewals", "done"} =>
        \A k \in 1..Len(Planning) :
            \/ PlannedHours(SameInspectorAndDate(k)) <= max_daily_hours(Planning[k].Data)
            \/ (SameInspectorAndDate(k) = {k} /\ total_hours(Planning[k]) > max_hours_per_day)

-----------------------------------------------------------------------------
(* Properties of next_available_date                                       *)

\* the day is no Saturday, no Sunday, no static or custom holiday and no day
\* of a vacation interval of the inspector
FreeDay(day) ==
    /\ Weekday(Datetime(day, 0)) \notin {5, 6}
    /\ day \notin ITALIAN_HOLIDAYS
    /\ day \notin nad_custom
    /\ ~(nad_inspector # "" /\ DayInVacationOf(day, nad_inspector, nad_vacations_df))

Lookahead == nad_start_date.day .. (nad_start_date.day + max_days - 1)

\* C20: when the lookahead holds a free day, next_available_date returns the
\* earliest free day on or after the start (the start itself when it is free).
C20_EarliestFreeDay ==
    (pcN = "done" /\ \E d \in Lookahead : FreeDay(d)) =>
        /\ nad_result.day \in Lookahead
        /\ FreeDay(nad_result.day)
        /\ \A d \in Lookahead : d < nad_result.day => ~FreeDay(d)

\* the function's own test of the date k days after the start
AvailableAt(k) ==
    is_available(PlusDays(nad_start_date, k), nad_inspector, nad_vacations_df, nad_custom)

\* C23: next_available_date returns after examining at most max_days dates,
\* none of them beyond the last date of the lookahead, and when it finds none
\* of the max_days dates from the start available it returns the start date
\* it was given.
C23_BoundedSearchFallsBackToStart ==
    pcN = "done" =>
        /\ nad_examined \in 1..max_days
        /\ nad_result = PlusDays(nad_start_date, nad_result.day - nad_start_date.day)
        /\ nad_result.day - nad_start_date.day \in 0..(max_days - 1)
        /\ (\A k \in 0..(max_days - 1) : ~AvailableAt(k)) => nad_result = nad_start_date

\* a search that examined all max_days dates of an inspector on vacation for
\* longer than the lookahead, from a start with a time of day
C23_Witness ==
    /\ pcN = "done"
    /\ nad_examined = max_days
    /\ \A k \in 0..(max_days - 1) : ~AvailableAt(k)
    /\ nad_inspector = "Adrian"
    /\ nad_start_date.tod = 1
    /\ nad_result = nad_start_date

-----------------------------------------------------------------------------
(* Properties of the tables handed to the engine                           *)

\* C21: when generate_planning has returned or aborted, the caller's customer
\* table and order table have the columns and the values they had at the call.
C21_InputTablesUntouched ==
    pcG \in {"done", "raised"} =>
        /\ anagrafica_df = gp_inputs.anagrafica
        /\ ordini_df = gp_inputs.ordini

-----------------------------------------------------------------------------
(* Properties of cluster_geographic                                        *)

\* the requested count K, the default standing for None
RequestedCount == IF cl_n_clusters.given THEN cl_n_clusters.n ELSE default_clusters

====
